---------------------------- MODULE Spec2Model ----------------------------
(***************************************************************************)
(* crossplane-ai: the resource classifier (pkg/crossplane convertToResource *)
(* and its helpers), the discovery aggregator (GetAllResources,            *)
(* GetFilteredResources), and the response generation service (pkg/ai     *)
(* Service with its OpenAI client).                                        *)
(*                                                                         *)
(* Go strings whose characters the code inspects (API groups, providers,   *)
(* request texts) are sequences of one-character strings, so that          *)
(* strings.Split, strings.Contains and strings.ToLower are computed.       *)
(* Strings the code only copies or compares whole (names, namespaces,      *)
(* statuses) are TLA+ strings.                                             *)
(***************************************************************************)
EXTENDS Integers, Sequences, FiniteSets, TLC

VARIABLES
    op,            \* the operation that produced the current state
    obj,           \* classifier: the raw object handed to convertToResource
    gvr,           \* classifier: the GroupVersionResource of the list call
    resource,      \* classifier: the Resource convertToResource returned
    apiServer,     \* discovery: per catalog index, the reply of the list call
    allResources,  \* discovery: result of GetAllResources
    listErr,       \* discovery: error returned by GetAllResources / GetFilteredResources
    filterArgs,    \* discovery: name, provider, namespace of GetFilteredResources
    filtered,      \* discovery: result of GetFilteredResources
    cmdErr,        \* command: TRUE iff the command's RunE returned an error
    cmdOut,        \* command: what the command printed
    useRealAI,     \* Service.useRealAI (openaiClient is non-nil exactly then)
    openaiReply,   \* service: outcome of the HTTP call to the completion service
    query,         \* service: request text given to ProcessQuery
    response,      \* service: text returned by ProcessQuery
    responseErr,   \* service: TRUE iff the service's method returned an error
    resourceList,  \* service: records given to AnalyzeResources
    analysis,      \* service: Analysis returned by AnalyzeResources
    suggestionType, \* service: the type given to GenerateSuggestions
    suggestions,   \* service: suggestions returned by GenerateSuggestions
    manifestReq,   \* service: description and provider given to GenerateManifest
    manifest,      \* service: manifest returned by GenerateManifest
    mockFlag,      \* process: viper's "mock" setting (the --mock flag)
    mockEnv,       \* process: whether CROSSPLANE_AI_MODE is "mock"
    kubeconfigOK,  \* process: whether a kubeconfig or in-cluster config can be built
    config,        \* process: the configuration config.Load returned, where recorded
    environ,       \* process: the environment variables, where recorded
    pc,            \* blocking run: the position of the command's goroutine
    kindAt,        \* blocking run: the catalog index the discovery loop is at
    mcpIn,         \* mcp server: what of standard input the decoder has not consumed
    mcpReqs,       \* mcp server: the requests decoded so far
    mcpOut,        \* mcp server: the responses written to standard output
    decErr,        \* mcp server: the error the json.Decoder holds on to ("" for none)
    logged,        \* mcp server: the decoding errors logged, counted in rounds of MaxLogged
    genArgs,       \* command: arguments and flags of generate
    sessionArgs,   \* command: flags of interactive
    stdin,         \* command: the lines typed on standard input
    steps,         \* command: the calls the command made, in order
    clusterCalls,  \* the requests sent to the cluster API, in order
    aiRequests     \* the number of requests sent to the completion service

vars == <<op, obj, gvr, resource, apiServer, allResources, listErr, filterArgs,
          filtered, cmdErr, cmdOut, useRealAI, openaiReply, query, response,
          responseErr, resourceList, analysis, suggestionType, suggestions,
          manifestReq, manifest, mockFlag, mockEnv, kubeconfigOK, config,
          environ, pc, kindAt, mcpIn, mcpReqs, mcpOut, decErr, logged, genArgs,
          sessionArgs, stdin, steps, clusterCalls, aiRequests>>

classifierVars == <<obj, gvr, resource>>
discoveryVars == <<apiServer, allResources, listErr, filterArgs, filtered>>
commandVars == <<cmdErr, cmdOut>>
serviceVars == <<openaiReply, query, response, responseErr, resourceList, analysis>>
generationVars == <<suggestionType, suggestions, manifestReq, manifest>>
processVars == <<mockFlag, mockEnv, kubeconfigOK, config, environ>>
blockingVars == <<pc, kindAt>>
serverVars == <<mcpIn, mcpReqs, mcpOut, decErr, logged>>
runVars == <<genArgs, sessionArgs, stdin, steps>>

-----------------------------------------------------------------------------
(* Bounds of the model *)

\* most entries of status.conditions of one raw object
MaxConds == 2
\* most catalog kinds whose list reply differs from the cluster's base reply
MaxDev == 2
\* most fragments a request text is built of
MaxFrags == 3
\* most records handed to AnalyzeResources
MaxRes == 5
\* most lines typed in a session of ask or of interactive
MaxLines == 2
\* most items on the standard input of the mcp server
MaxReqs == 2
\* most decoding errors of the mcp server that are counted
MaxLogged == 2

-----------------------------------------------------------------------------
(* Strings *)

RECURSIVE Split(_, _)
\* strings.Split(s, sep) for a one-character separator
Split(s, sep) ==
    IF \E i \in 1..Len(s) : s[i] = sep
    THEN LET i == CHOOSE k \in 1..Len(s) :
                      s[k] = sep /\ \A j \in 1..(k - 1) : s[j] # sep
         IN <<SubSeq(s, 1, i - 1)>> \o Split(SubSeq(s, i + 1, Len(s)), sep)
    ELSE <<s>>

\* strings.Contains(s, substr)
Contains(s, substr) ==
    \E i \in 1..(Len(s) - Len(substr) + 1) :
        SubSeq(s, i, i + Len(substr) - 1) = substr

UpperChars == <<"A","B","C","D","E","F","G","H","I","J","K","L","M","N","O","P","Q","R","S","T","U","V","W","X","Y","Z">>
LowerChars == <<"a","b","c","d","e","f","g","h","i","j","k","l","m","n","o","p","q","r","s","t","u","v","w","x","y","z">>

\* strings.ToLower(s)
ToLower(s) ==
    [i \in 1..Len(s) |->
        IF \E k \in 1..Len(UpperChars) : UpperChars[k] = s[i]
        THEN LowerChars[CHOOSE k \in 1..Len(UpperChars) : UpperChars[k] = s[i]]
        ELSE s[i]]

RECURSIVE Concat(_)
\* the concatenation of a sequence of strings
Concat(ss) == IF ss = <<>> THEN <<>> ELSE Head(ss) \o Concat(Tail(ss))

\* sequences over S of length at most n
SeqUpTo(S, n) == UNION {[1..k -> S] : k \in 0..n}

-----------------------------------------------------------------------------
(* pkg/crossplane: the classifier *)

GroupApiextensions == <<"a","p","i","e","x","t","e","n","s","i","o","n","s",".","c","r","o","s","s","p","l","a","n","e",".","i","o">>
GroupPkg == <<"p","k","g",".","c","r","o","s","s","p","l","a","n","e",".","i","o">>
GroupRdsAws == <<"r","d","s",".","a","w","s",".","c","r","o","s","s","p","l","a","n","e",".","i","o">>
GroupEc2Aws == <<"e","c","2",".","a","w","s",".","c","r","o","s","s","p","l","a","n","e",".","i","o">>
GroupS3Aws == <<"s","3",".","a","w","s",".","c","r","o","s","s","p","l","a","n","e",".","i","o">>
GroupEksAws == <<"e","k","s",".","a","w","s",".","c","r","o","s","s","p","l","a","n","e",".","i","o">>
GroupSqlGcp == <<"s","q","l",".","g","c","p",".","c","r","o","s","s","p","l","a","n","e",".","i","o">>
GroupComputeGcp == <<"c","o","m","p","u","t","e",".","g","c","p",".","c","r","o","s","s","p","l","a","n","e",".","i","o">>
GroupStorageGcp == <<"s","t","o","r","a","g","e",".","g","c","p",".","c","r","o","s","s","p","l","a","n","e",".","i","o">>
GroupSqlAzure == <<"s","q","l",".","a","z","u","r","e",".","c","r","o","s","s","p","l","a","n","e",".","i","o">>
GroupComputeAzure == <<"c","o","m","p","u","t","e",".","a","z","u","r","e",".","c","r","o","s","s","p","l","a","n","e",".","i","o">>
GroupStorageAzure == <<"s","t","o","r","a","g","e",".","a","z","u","r","e",".","c","r","o","s","s","p","l","a","n","e",".","i","o">>

StrCrossplane == <<"c","r","o","s","s","p","l","a","n","e">>
StrUnknown == <<"u","n","k","n","o","w","n">>
StrAws == <<"a","w","s">>
StrGcp == <<"g","c","p">>

\* extractProviderFromGroup with the wrong sentinel literal for the reserved groups
extractProviderFromGroup_WrongSentinel(group) ==
    IF group = GroupPkg \/ group = GroupApiextensions
    THEN StrUnknown
    ELSE LET parts == Split(group, ".")
         IN IF Len(parts) >= 2 THEN parts[2] ELSE StrUnknown

\* extractProviderFromGroup returning the first dot-separated segment
extractProviderFromGroup_FirstSegment(group) ==
    IF group = GroupPkg \/ group = GroupApiextensions
    THEN StrCrossplane
    ELSE LET parts == Split(group, ".")
         IN IF Len(parts) >= 2 THEN parts[1] ELSE StrUnknown

extractProviderFromGroup(group) ==
    IF group = GroupPkg \/ group = GroupApiextensions
    THEN StrCrossplane
    ELSE LET parts == Split(group, ".")
         IN IF Len(parts) >= 2 THEN parts[2] ELSE StrUnknown

\* Values of a condition entry's "type" / "status" key: missing, present but
\* not a string, or a string.
Absent == "<absent>"
NonString == "<nonstring>"
CondTypes == {Absent, NonString, "Ready", "Synced"}
CondStatuses == {Absent, NonString, "True", "False"}

\* An entry of status.conditions: a map with the two keys, or not a map.
CondEntries ==
    [isMap : {TRUE}, type : CondTypes, status : CondStatuses]
        \cup {[isMap |-> FALSE, type |-> Absent, status |-> Absent]}

\* unstructured.NestedString(condition, key): found only for a string value
NestedStringFound(v) == v # Absent /\ v # NonString

RECURSIVE extractStatusFromConditions_NoStatusCheck(_)
\* extractStatusFromConditions deciding on a Ready entry whatever its status
\* field holds (the test of the status lookup's found result left out)
extractStatusFromConditions_NoStatusCheck(conditions) ==
    IF conditions = <<>>
    THEN "Unknown"
    ELSE LET condition == Head(conditions)
         IN IF /\ condition.isMap
               /\ NestedStringFound(condition.type)
               /\ condition.type = "Ready"
            THEN IF condition.status = "True" THEN "Ready" ELSE "Not Ready"
            ELSE extractStatusFromConditions_NoStatusCheck(Tail(conditions))

RECURSIVE extractStatusFromConditions(_)
extractStatusFromConditions(conditions) ==
    IF conditions = <<>>
    THEN "Unknown"
    ELSE LET condition == Head(conditions)
         IN IF /\ condition.isMap
               /\ NestedStringFound(condition.type)
               /\ NestedStringFound(condition.status)
               /\ condition.type = "Ready"
            THEN IF condition.status = "True" THEN "Ready" ELSE "Not Ready"
            ELSE extractStatusFromConditions(Tail(conditions))

\* status.ready: missing, a boolean, or a value of another type
ReadyVals == {Absent, "true", "false", "<nonbool>"}

\* status.conditions: missing, not a list, or a list of entries
ConditionsVals(n) ==
    {[kind |-> k, items |-> <<>>] : k \in {"absent", "nonslice"}}
        \cup [kind : {"slice"}, items : SeqUpTo(CondEntries, n)]

\* the object's "status" key: missing, not a map, or a map
StatusVals(n) ==
    {[kind |-> k, ready |-> Absent, conditions |-> [kind |-> "absent", items |-> <<>>]] :
        k \in {"absent", "nonmap"}}
        \cup [kind : {"map"}, ready : ReadyVals, conditions : ConditionsVals(n)]

\* convertToResource's status without the initial "Unknown" (the zero value
\* of a string is kept when nothing is found)
statusOf_NoDefault(st) ==
    LET status0 == ""
        foundStatus == st.kind = "map"
        foundReady == st.ready \in {"true", "false"}
        status1 == IF foundStatus /\ foundReady
                   THEN IF st.ready = "true" THEN "Ready" ELSE "Not Ready"
                   ELSE status0
        foundConditions == st.conditions.kind = "slice"
    IN IF foundStatus /\ foundConditions
       THEN extractStatusFromConditions(st.conditions.items)
       ELSE status1

\* The status convertToResource derives from the object's "status" key.
statusOf(st) ==
    LET status0 == "Unknown"
        \* unstructured.NestedMap(obj.Object, "status")
        foundStatus == st.kind = "map"
        \* unstructured.NestedBool(statusObj, "ready")
        foundReady == st.ready \in {"true", "false"}
        status1 == IF foundStatus /\ foundReady
                   THEN IF st.ready = "true" THEN "Ready" ELSE "Not Ready"
                   ELSE status0
        \* unstructured.NestedSlice(statusObj, "conditions")
        foundConditions == st.conditions.kind = "slice"
    IN IF foundStatus /\ foundConditions
       THEN extractStatusFromConditions(st.conditions.items)
       ELSE status1

convertToResource(o, g) ==
    [Name      |-> o.name,
     Namespace |-> o.namespace,
     Type      |-> g.Resource,
     Provider  |-> extractProviderFromGroup(g.Group),
     Status    |-> statusOf(o.status),
     Age       |-> IF o.created THEN "<duration>" ELSE "Unknown"]

\* GetAllResources' table of resource types, in order
resourceTypes == <<
    [Group |-> GroupApiextensions, Version |-> "v1", Resource |-> "compositions"],
    [Group |-> GroupApiextensions, Version |-> "v1", Resource |-> "compositeresourcedefinitions"],
    [Group |-> GroupPkg, Version |-> "v1", Resource |-> "providers"],
    [Group |-> GroupPkg, Version |-> "v1", Resource |-> "configurations"],
    [Group |-> GroupRdsAws, Version |-> "v1alpha1", Resource |-> "dbinstances"],
    [Group |-> GroupEc2Aws, Version |-> "v1alpha1", Resource |-> "instances"],
    [Group |-> GroupS3Aws, Version |-> "v1alpha1", Resource |-> "buckets"],
    [Group |-> GroupEksAws, Version |-> "v1alpha1", Resource |-> "clusters"],
    [Group |-> GroupSqlGcp, Version |-> "v1alpha1", Resource |-> "databaseinstances"],
    [Group |-> GroupComputeGcp, Version |-> "v1alpha1", Resource |-> "instances"],
    [Group |-> GroupStorageGcp, Version |-> "v1alpha1", Resource |-> "buckets"],
    [Group |-> GroupSqlAzure, Version |-> "v1alpha1", Resource |-> "servers"],
    [Group |-> GroupComputeAzure, Version |-> "v1alpha1", Resource |-> "virtualmachines"],
    [Group |-> GroupStorageAzure, Version |-> "v1alpha1", Resource |-> "accounts"] >>

-----------------------------------------------------------------------------
(* pkg/crossplane: discovery *)

\* The reply of one list call: an error, or the listed items.
ErrReply == [err |-> TRUE, items |-> <<>>]
EmptyReply == [err |-> FALSE, items |-> <<>>]

\* c.dynamicClient.Resource(gvr).List followed by the conversion loop
getResourcesOfType(server, i) ==
    IF server[i].err
    THEN [resources |-> <<>>, err |-> TRUE]
    ELSE [resources |-> [k \in 1..Len(server[i].items) |->
                            convertToResource(server[i].items[k], resourceTypes[i])],
          err |-> FALSE]

RECURSIVE collectFrom_FailFast(_, _)
\* the loop of GetAllResources leaving at the first failing kind (break for continue)
collectFrom_FailFast(server, i) ==
    IF i > Len(resourceTypes)
    THEN <<>>
    ELSE LET r == getResourcesOfType(server, i)
         IN IF r.err THEN <<>> ELSE r.resources \o collectFrom_FailFast(server, i + 1)

RECURSIVE collectFrom_Prepend(_, _)
\* the loop of GetAllResources putting each kind's records in front of the
\* ones collected so far
collectFrom_Prepend(server, i) ==
    IF i > Len(resourceTypes)
    THEN <<>>
    ELSE LET r == getResourcesOfType(server, i)
         IN collectFrom_Prepend(server, i + 1) \o (IF r.err THEN <<>> ELSE r.resources)

RECURSIVE collectFrom(_, _)
\* the loop of GetAllResources from catalog index i on
collectFrom(server, i) ==
    IF i > Len(resourceTypes)
    THEN <<>>
    ELSE LET r == getResourcesOfType(server, i)
         IN (IF r.err THEN <<>> ELSE r.resources) \o collectFrom(server, i + 1)

\* a List request for the catalog entry of an index
ListCall(i) == [verb |-> "list", kind |-> i]

RECURSIVE listCalls_RetryFailed(_, _)
\* the loop of GetAllResources listing a kind again when its call failed
listCalls_RetryFailed(server, i) ==
    IF i > Len(resourceTypes)
    THEN <<>>
    ELSE (IF server[i].err THEN <<ListCall(i), ListCall(i)>> ELSE <<ListCall(i)>>)
             \o listCalls_RetryFailed(server, i + 1)

RECURSIVE listCalls(_, _)
\* the requests the loop of GetAllResources sends to the cluster API from
\* catalog entry i on: getResourcesOfType sends one List, and the loop goes
\* on to the next entry whether it failed or not
listCalls(server, i) ==
    IF i > Len(resourceTypes)
    THEN <<>>
    ELSE <<ListCall(i)>> \o listCalls(server, i + 1)

\* GetAllResources: the records, the error, and the requests it sends to the
\* cluster API
GetAllResources(server) ==
    [resources |-> collectFrom(server, 1), err |-> FALSE,
     calls |-> listCalls(server, 1)]

\* GetFilteredResources ignoring the namespace filter
GetFilteredResources_NoNamespace(server, name, provider, namespace) ==
    LET all == GetAllResources(server)
        keep(r) == /\ ~(name # "" /\ r.Name # name)
                   /\ ~(provider # <<>> /\ r.Provider # provider)
    IN IF all.err
       THEN [resources |-> <<>>, err |-> TRUE, calls |-> all.calls]
       ELSE [resources |-> SelectSeq(all.resources, keep), err |-> FALSE,
             calls |-> all.calls]

GetFilteredResources(server, name, provider, namespace) ==
    LET all == GetAllResources(server)
        keep(r) == /\ ~(name # "" /\ r.Name # name)
                   /\ ~(provider # <<>> /\ r.Provider # provider)
                   /\ ~(namespace # "" /\ r.Namespace # namespace)
    IN IF all.err
       THEN [resources |-> <<>>, err |-> TRUE, calls |-> all.calls]
       ELSE [resources |-> SelectSeq(all.resources, keep), err |-> FALSE,
             calls |-> all.calls]

-----------------------------------------------------------------------------
(* pkg/ai: the OpenAI client *)

StatusOK == 200
\* status codes of replies that are not 200: unauthorized, internal server error
ErrorStatuses == {401, 500}

\* What the completion service's message can hold: text that is no JSON, or
\* a JSON object with the fields of Analysis.
NoAnalysis ==
    [TotalResources |-> 0, HealthyResources |-> 0, IssuesFound |-> 0,
     HealthScore |-> 0, Resources |-> <<>>, Issues |-> <<>>,
     Recommendations |-> <<>>]

\* a Suggestion
Suggestion(title, description, example, priority, category) ==
    [Title |-> title, Description |-> description, Example |-> example,
     Priority |-> priority, Category |-> category]

\* The message is the empty text, text that is no JSON, a JSON object with
\* the fields of Analysis, or a JSON array of Suggestion objects.
Contents ==
    { [id |-> "", isJSON |-> FALSE, json |-> NoAnalysis, isArray |-> FALSE, array |-> <<>>],
      [id |-> "prose", isJSON |-> FALSE, json |-> NoAnalysis, isArray |-> FALSE, array |-> <<>>],
      [id |-> "json-a", isJSON |-> TRUE,
       json |-> [NoAnalysis EXCEPT !.TotalResources = 2, !.HealthyResources = 1,
                                   !.IssuesFound = 1, !.HealthScore = 50],
       isArray |-> FALSE, array |-> <<>>],
      [id |-> "json-b", isJSON |-> TRUE,
       json |-> [NoAnalysis EXCEPT !.TotalResources = 3, !.HealthyResources = 7,
                                   !.IssuesFound = 2, !.HealthScore = 250],
       isArray |-> FALSE, array |-> <<>>],
      [id |-> "json-list", isJSON |-> FALSE, json |-> NoAnalysis, isArray |-> TRUE,
       array |-> << Suggestion("Pin Provider Versions", "d1", "", "High", <<"R","e","l","i","a","b","i","l","i","t","y">>),
                    Suggestion("Tag Resources", "d2", "", "", <<"C","o","s","t">>) >>] }

NoContent == [id |-> "", isJSON |-> FALSE, json |-> NoAnalysis, isArray |-> FALSE, array |-> <<>>]

\* The outcome of httpClient.Do and of reading the reply: whether a reply
\* arrived, its status code, whether its body is an OpenAIResponse in JSON,
\* and the messages of its choices.
HttpReplies ==
    {[arrived |-> FALSE, statusCode |-> 0, bodyJSON |-> FALSE, choices |-> <<>>]}
        \cup {r \in [arrived : {TRUE},
                     statusCode : {StatusOK} \cup ErrorStatuses,
                     bodyJSON : BOOLEAN,
                     choices : SeqUpTo(Contents, 1)] :
                /\ ~r.bodyJSON => r.choices = <<>>
                /\ r.statusCode # StatusOK => ~r.bodyJSON}

\* the reply slot of a call that sends nothing
NoReply == [arrived |-> FALSE, statusCode |-> 0, bodyJSON |-> FALSE, choices |-> <<>>]

\* sendRequest: the message, the error, and the number of requests it sent
\* to the completion service
sendRequest(reply) ==
    IF ~reply.arrived
    THEN [content |-> NoContent, err |-> TRUE, requests |-> 1]
    ELSE IF reply.statusCode # StatusOK
    THEN [content |-> NoContent, err |-> TRUE, requests |-> 1]
    ELSE IF ~reply.bodyJSON
    THEN [content |-> NoContent, err |-> TRUE, requests |-> 1]
    ELSE IF Len(reply.choices) = 0
    THEN [content |-> NoContent, err |-> TRUE, requests |-> 1]
    ELSE [content |-> reply.choices[1], err |-> FALSE, requests |-> 1]

Complete(reply) == sendRequest(reply)

CompleteWithContext(reply) == Complete(reply)

\* OpenAIClient.AnalyzeResources
OpenAIAnalyzeResources(reply) ==
    LET r == Complete(reply)
    IN IF r.err
       THEN [analysis |-> NoAnalysis, err |-> TRUE, requests |-> r.requests]
       ELSE IF ~r.content.isJSON
       THEN [analysis |-> [NoAnalysis EXCEPT
                              !.TotalResources = 1, !.HealthyResources = 1,
                              !.IssuesFound = 0, !.HealthScore = 85,
                              !.Recommendations = <<"AI Analysis Results">>],
             err |-> FALSE, requests |-> r.requests]
       ELSE [analysis |-> r.content.json, err |-> FALSE, requests |-> r.requests]

\* OpenAIClient.GenerateSuggestions
OpenAIGenerateSuggestions(suggType, reply) ==
    LET r == Complete(reply)
    IN IF r.err
       THEN [suggestions |-> <<>>, err |-> TRUE, requests |-> r.requests]
       ELSE IF ~r.content.isArray
       THEN [suggestions |-> << Suggestion("AI Suggestion for %s", r.content.id,
                                           "", "Medium", suggType) >>,
             err |-> FALSE, requests |-> r.requests]
       ELSE [suggestions |-> r.content.array, err |-> FALSE, requests |-> r.requests]

-----------------------------------------------------------------------------
(* pkg/ai: the service *)

KwWhat == <<"w","h","a","t">>
KwResources == <<"r","e","s","o","u","r","c","e","s">>
KwAws == <<"a","w","s">>
KwDatabase == <<"d","a","t","a","b","a","s","e">>
KwDb == <<"d","b">>
KwNotReady == <<"n","o","t"," ","r","e","a","d","y">>
KwFailed == <<"f","a","i","l","e","d">>
KwCost == <<"c","o","s","t">>
KwExpensive == <<"e","x","p","e","n","s","i","v","e">>

\* a response text: which text it is, the request text it quotes, and the
\* completion message it carries
Answer(kind, quoted, content) == [kind |-> kind, quoted |-> quoted, content |-> content]
NoAnswer == Answer("", <<>>, "")

\* simulateAIResponse testing the request text as given, not lower-cased
simulateAIResponse_NoLower(q) ==
    LET queryLower == q
    IN IF Contains(queryLower, KwWhat) /\ Contains(queryLower, KwResources)
       THEN Answer("summary", <<>>, "")
       ELSE IF Contains(queryLower, KwAws)
       THEN Answer("aws", <<>>, "")
       ELSE IF Contains(queryLower, KwDatabase) \/ Contains(queryLower, KwDb)
       THEN Answer("database", <<>>, "")
       ELSE IF Contains(queryLower, KwNotReady) \/ Contains(queryLower, KwFailed)
       THEN Answer("troubleshooting", <<>>, "")
       ELSE IF Contains(queryLower, KwCost) \/ Contains(queryLower, KwExpensive)
       THEN Answer("cost", <<>>, "")
       ELSE Answer("fallback", q, "")

simulateAIResponse(q) ==
    LET queryLower == ToLower(q)
    IN IF Contains(queryLower, KwWhat) /\ Contains(queryLower, KwResources)
       THEN Answer("summary", <<>>, "")
       ELSE IF Contains(queryLower, KwAws)
       THEN Answer("aws", <<>>, "")
       ELSE IF Contains(queryLower, KwDatabase) \/ Contains(queryLower, KwDb)
       THEN Answer("database", <<>>, "")
       ELSE IF Contains(queryLower, KwNotReady) \/ Contains(queryLower, KwFailed)
       THEN Answer("troubleshooting", <<>>, "")
       ELSE IF Contains(queryLower, KwCost) \/ Contains(queryLower, KwExpensive)
       THEN Answer("cost", <<>>, "")
       ELSE Answer("fallback", q, "")

\* Service.ProcessQuery; marshalling the resources cannot fail for the
\* record types the callers pass
ProcessQuery(real, q, reply) ==
    IF real
    THEN LET r == CompleteWithContext(reply)
         IN [response |-> Answer(IF r.err THEN "" ELSE "completion", <<>>, r.content.id),
             err |-> r.err, requests |-> r.requests]
    ELSE [response |-> simulateAIResponse(q), err |-> FALSE, requests |-> 0]

\* the Issue performRealAnalysis appends for a record
IssueFor(res) ==
    [Severity |-> "Warning",
     Description |-> <<"Resource", res.Name, "is in", res.Status, "state">>,
     Resource |-> res.Name,
     Resolution |-> "Check resource events and provider status"]

RECURSIVE issuesOf_UnknownToo(_)
\* the loop reporting every record that is not Ready, Unknown ones included
issuesOf_UnknownToo(resources) ==
    IF resources = <<>>
    THEN <<>>
    ELSE LET res == Head(resources)
         IN (IF res.Status # "Ready"
             THEN <<IssueFor(res)>>
             ELSE <<>>) \o issuesOf_UnknownToo(Tail(resources))

RECURSIVE issuesOf(_)
\* the issues performRealAnalysis' loop collects, in input order
issuesOf(resources) ==
    IF resources = <<>>
    THEN <<>>
    ELSE LET res == Head(resources)
         IN (IF res.Status # "Ready" /\ res.Status # "Unknown"
             THEN <<IssueFor(res)>>
             ELSE <<>>) \o issuesOf(Tail(resources))

generateRealRecommendations(resources, healthScore) ==
    LET providers == {resources[i].Provider : i \in 1..Len(resources)}
    IN (IF healthScore < 80 THEN <<"Investigate Resource Issues">> ELSE <<>>)
       \o (IF Cardinality(providers) > 2 THEN <<"Multi-Cloud Management">> ELSE <<>>)
       \o (IF Len(resources) > 0 THEN <<"Enable Monitoring and Alerting">> ELSE <<>>)

\* performRealAnalysis rounding the score up
performRealAnalysis_RoundUp(resources) ==
    LET totalResources == Len(resources)
        healthyResources ==
            Cardinality({i \in 1..Len(resources) : resources[i].Status = "Ready"})
        issues == issuesOf(resources)
        healthScore == IF totalResources > 0
                       THEN (healthyResources * 100 + totalResources - 1) \div totalResources
                       ELSE 100
    IN [TotalResources |-> totalResources,
        HealthyResources |-> healthyResources,
        IssuesFound |-> Len(issues),
        HealthScore |-> healthScore,
        Resources |-> resources,
        Issues |-> issues,
        Recommendations |-> generateRealRecommendations(resources, healthScore)]

performRealAnalysis(resources) ==
    LET totalResources == Len(resources)
        healthyResources ==
            Cardinality({i \in 1..Len(resources) : resources[i].Status = "Ready"})
        issues == issuesOf(resources)
        healthScore == IF totalResources > 0
                       THEN (healthyResources * 100) \div totalResources
                       ELSE 100
    IN [TotalResources |-> totalResources,
        HealthyResources |-> healthyResources,
        IssuesFound |-> Len(issues),
        HealthScore |-> healthScore,
        Resources |-> resources,
        Issues |-> issues,
        Recommendations |-> generateRealRecommendations(resources, healthScore)]

\* the conversion of a crossplane.Resource in AnalyzeResources' type switch
toResourceInfo(res) ==
    [Name |-> res.Name, Type |-> res.Type, Status |-> res.Status,
     Provider |-> res.Provider, Age |-> res.Age]

\* Service.AnalyzeResources on a list of ResourceInfo; healthCheck only
\* changes the wording of the prompt sent to the completion service
AnalyzeResources(real, resources, reply) ==
    IF Len(resources) = 0
    THEN [analysis |-> [NoAnalysis EXCEPT
                           !.Recommendations = <<"Install Crossplane Providers">>],
          err |-> FALSE, requests |-> 0]
    ELSE IF real
    THEN LET r == OpenAIAnalyzeResources(reply)
         IN IF r.err
            THEN [analysis |-> performRealAnalysis(resources), err |-> FALSE,
                  requests |-> r.requests]
            ELSE [analysis |-> r.analysis, err |-> FALSE, requests |-> r.requests]
    ELSE [analysis |-> performRealAnalysis(resources), err |-> FALSE, requests |-> 0]

\* Service.generateMockSuggestions
generateMockSuggestions(suggType) ==
    LET typeLower == ToLower(suggType)
    IN IF typeLower = <<"d","a","t","a","b","a","s","e">> \/ typeLower = <<"d","b">>
       THEN << Suggestion("Enable Automated Backups",
                          "Configure automated backups for your RDS instances to ensure data protection",
                          "backupRetentionPeriod: 7", "High", <<"R","e","l","i","a","b","i","l","i","t","y">>),
               Suggestion("Implement Read Replicas",
                          "Add read replicas to distribute read traffic and improve performance",
                          "", "Medium", <<"P","e","r","f","o","r","m","a","n","c","e">>) >>
       ELSE IF typeLower = <<"s","e","c","u","r","i","t","y">>
       THEN << Suggestion("Enable Encryption at Rest",
                          "Encrypt your databases and storage resources to enhance security",
                          "", "High", <<"S","e","c","u","r","i","t","y">>),
               Suggestion("Review IAM Policies",
                          "Audit and tighten IAM policies to follow principle of least privilege",
                          "", "High", <<"S","e","c","u","r","i","t","y">>) >>
       ELSE IF typeLower = <<"o","p","t","i","m","i","z","e">> \/ typeLower = <<"o","p","t","i","m","i","z","a","t","i","o","n">>
       THEN << Suggestion("Right-size Resources",
                          "Analyze resource utilization and adjust instance sizes accordingly",
                          "", "Medium", <<"C","o","s","t">>),
               Suggestion("Implement Auto-scaling",
                          "Configure auto-scaling groups to optimize resource usage",
                          "", "Medium", <<"P","e","r","f","o","r","m","a","n","c","e">>) >>
       ELSE << Suggestion("Health Check Resources",
                          "Run regular health checks on all Crossplane resources",
                          "", "Medium", <<"M","o","n","i","t","o","r","i","n","g">>),
               Suggestion("Update Providers",
                          "Keep your Crossplane providers up to date for latest features and security fixes",
                          "", "Low", <<"M","a","i","n","t","e","n","a","n","c","e">>) >>

\* the []*Suggestion built by "for i, suggestion := range suggestions
\* { result[i] = &suggestion }": with one loop variable per loop (language
\* versions before 1.22) every pointer refers to the last element
pointersTo(list, perLoopVar) ==
    IF perLoopVar
    THEN [i \in 1..Len(list) |-> list[Len(list)]]
    ELSE list

\* Service.GenerateSuggestions returning the client's error
GenerateSuggestions_NoFallback(real, suggType, reply, perLoopVar) ==
    IF real
    THEN LET r == OpenAIGenerateSuggestions(suggType, reply)
         IN IF r.err
            THEN [suggestions |-> <<>>, err |-> TRUE, requests |-> r.requests]
            ELSE [suggestions |-> pointersTo(r.suggestions, perLoopVar),
                  err |-> FALSE, requests |-> r.requests]
    ELSE [suggestions |-> generateMockSuggestions(suggType), err |-> FALSE,
          requests |-> 0]

\* Service.GenerateSuggestions; marshalling the resources cannot fail for the
\* record types the callers pass
GenerateSuggestions(real, suggType, reply, perLoopVar) ==
    IF real
    THEN LET r == OpenAIGenerateSuggestions(suggType, reply)
         IN IF r.err
            THEN [suggestions |-> generateMockSuggestions(suggType), err |-> FALSE,
                  requests |-> r.requests]
            ELSE [suggestions |-> pointersTo(r.suggestions, perLoopVar),
                  err |-> FALSE, requests |-> r.requests]
    ELSE [suggestions |-> generateMockSuggestions(suggType), err |-> FALSE,
          requests |-> 0]

StrAuto == <<"a","u","t","o">>

\* a manifest text: which template or completion it is, the provider and
\* the variant it is filled with, the description it quotes, and the
\* completion message it carries; the empty text has every part empty
Manifest(kind, provider, variant, quoted, content) ==
    [kind |-> kind, provider |-> provider, variant |-> variant,
     quoted |-> quoted, content |-> content]

NoManifest == Manifest("", <<>>, "", <<>>, "")

\* the provider a template names when none is asked for
providerOrAws(provider) ==
    IF provider = <<>> \/ provider = StrAuto THEN StrAws ELSE provider

generateDatabaseTemplate(provider) ==
    Manifest("database template", providerOrAws(provider), "", <<>>, "")

generateStorageTemplate(provider) ==
    Manifest("storage template", providerOrAws(provider), "", <<>>, "")

generateComputeTemplate(provider) ==
    Manifest("compute template", providerOrAws(provider), "", <<>>, "")

generateCompositionTemplate(provider) ==
    Manifest("composition template", provider, "", <<>>, "")

generateTemplateManifest(description, provider) ==
    LET descLower == ToLower(description)
    IN IF \/ Contains(descLower, <<"d","a","t","a","b","a","s","e">>)
          \/ Contains(descLower, <<"p","o","s","t","g","r","e","s">>)
          \/ Contains(descLower, <<"m","y","s","q","l">>)
       THEN generateDatabaseTemplate(provider)
       ELSE IF Contains(descLower, <<"s","t","o","r","a","g","e">>) \/ Contains(descLower, <<"b","u","c","k","e","t">>)
       THEN generateStorageTemplate(provider)
       ELSE IF Contains(descLower, <<"c","o","m","p","u","t","e">>) \/ Contains(descLower, <<"i","n","s","t","a","n","c","e">>)
       THEN generateComputeTemplate(provider)
       ELSE generateCompositionTemplate(provider)

\* Service.GenerateManifest
GenerateManifest(real, description, provider, reply) ==
    IF real
    THEN LET r == Complete(reply)
         IN [manifest |-> IF r.err \/ r.content.id = ""
                          THEN NoManifest
                          ELSE Manifest("completion", <<>>, "", <<>>, r.content.id),
             err |-> r.err, requests |-> r.requests]
    ELSE [manifest |-> generateTemplateManifest(description, provider),
          err |-> FALSE, requests |-> 0]

\* Environment variables and configuration read at construction
EnvMode == <<"C","R","O","S","S","P","L","A","N","E","_","A","I","_","M","O","D","E">>
EnvOpenAIKey == <<"O","P","E","N","A","I","_","A","P","I","_","K","E","Y">>
EnvMyKey == <<"M","Y","_","K","E","Y">>
StrMock == <<"m","o","c","k">>
StrOpenai == <<"o","p","e","n","a","i">>
StrSecret == <<"s","k","-","1">>
StrKeyRef == <<"$","{","M","Y","_","K","E","Y","}">>

HasPrefix(s, p) == Len(s) >= Len(p) /\ SubSeq(s, 1, Len(p)) = p
HasSuffix(s, p) == Len(s) >= Len(p) /\ SubSeq(s, Len(s) - Len(p) + 1, Len(s)) = p
TrimPrefix(s, p) == IF HasPrefix(s, p) THEN SubSeq(s, Len(p) + 1, Len(s)) ELSE s
TrimSuffix(s, p) == IF HasSuffix(s, p) THEN SubSeq(s, 1, Len(s) - Len(p)) ELSE s

\* os.Getenv: the value of a set variable, the empty string otherwise
Getenv(env, name) == IF name \in DOMAIN env THEN env[name] ELSE <<>>

getAPIKey(cfg, env) ==
    IF cfg.APIKey # <<>>
    THEN IF HasPrefix(cfg.APIKey, <<"$", "{">>) /\ HasSuffix(cfg.APIKey, <<"}">>)
         THEN Getenv(env, TrimSuffix(TrimPrefix(cfg.APIKey, <<"$", "{">>), <<"}">>))
         ELSE cfg.APIKey
    ELSE Getenv(env, EnvOpenAIKey)

shouldUseRealAI(cfg, env) ==
    IF Getenv(env, EnvMode) = StrMock
    THEN FALSE
    ELSE IF cfg.Provider = StrOpenai
    THEN getAPIKey(cfg, env) # <<>>
    ELSE FALSE

\* config.Load's results and the process environment
Configs ==
    [loadErr : BOOLEAN, Provider : {StrOpenai, StrMock}, APIKey : {<<>>, StrSecret, StrKeyRef}]
Envs ==
    [{EnvMode, EnvOpenAIKey, EnvMyKey} -> {<<>>, StrSecret}]
        \cup {[n \in {EnvMode, EnvOpenAIKey, EnvMyKey} |->
                  IF n = EnvMode THEN StrMock ELSE v] : v \in {<<>>, StrSecret}}

\* NewService: the useRealAI field of the service it returns
NewService(cfg, env) == IF cfg.loadErr THEN FALSE ELSE shouldUseRealAI(cfg, env)

-----------------------------------------------------------------------------
(* cmd: the analyze command *)

\* printDetailedAnalysis, its last block: whether the score line is printed,
\* and the verdict under it ("" when none is)
printDetailedAnalysis(a) ==
    IF a.HealthScore > 0
    THEN [score |-> TRUE,
          verdict |-> IF a.HealthScore >= 80 THEN "healthy"
                      ELSE IF a.HealthScore >= 60 THEN "needs attention"
                      ELSE "critical"]
    ELSE [score |-> FALSE, verdict |-> ""]

\* performAnalysis handing an empty result to the service as well
performAnalysis_NoEmptyCheck(real, server, name, provider, namespace, reply) ==
    LET r == GetFilteredResources(server, name, provider, namespace)
        a == AnalyzeResources(real,
                 [i \in 1..Len(r.resources) |-> toResourceInfo(r.resources[i])],
                 reply)
    IN [err |-> r.err \/ a.err,
        out |-> IF r.err THEN "failed to get resources"
                ELSE IF a.err THEN "analysis failed" ELSE "analysis",
        analysis |-> IF r.err \/ a.err THEN NoAnalysis ELSE a.analysis,
        steps |-> IF r.err THEN <<"GetFilteredResources">>
                  ELSE <<"GetFilteredResources", "AnalyzeResources">>,
        calls |-> r.calls, requests |-> IF r.err THEN 0 ELSE a.requests]

\* performAnalysis: the error it returns, what is printed, the Analysis
\* printed (NoAnalysis when none is), the calls it makes, and the requests
\* sent to the cluster API and to the completion service
performAnalysis(real, server, name, provider, namespace, reply) ==
    LET r == GetFilteredResources(server, name, provider, namespace)
    IN IF r.err
       THEN [err |-> TRUE, out |-> "failed to get resources", analysis |-> NoAnalysis,
             steps |-> <<"GetFilteredResources">>, calls |-> r.calls, requests |-> 0]
       ELSE IF Len(r.resources) = 0
       THEN [err |-> FALSE, out |-> "No Crossplane resources found matching the criteria.",
             analysis |-> NoAnalysis,
             steps |-> <<"GetFilteredResources">>, calls |-> r.calls, requests |-> 0]
       ELSE LET a == AnalyzeResources(real,
                         [i \in 1..Len(r.resources) |-> toResourceInfo(r.resources[i])],
                         reply)
            IN IF a.err
               THEN [err |-> TRUE, out |-> "analysis failed", analysis |-> NoAnalysis,
                     steps |-> <<"GetFilteredResources", "AnalyzeResources">>,
                     calls |-> r.calls, requests |-> a.requests]
               ELSE [err |-> FALSE, out |-> "analysis", analysis |-> a.analysis,
                     steps |-> <<"GetFilteredResources", "AnalyzeResources">>,
                     calls |-> r.calls, requests |-> a.requests]

-----------------------------------------------------------------------------
(* cmd: mock mode, prompts, and the generate command *)

\* IsMockMode: the mock flag first, then the environment variable
IsMockMode == mockFlag \/ mockEnv

\* strings.Join(words, " ")
RECURSIVE Join(_)
Join(words) ==
    IF words = <<>>
    THEN <<>>
    ELSE IF Len(words) = 1
    THEN words[1]
    ELSE words[1] \o <<" ">> \o Join(Tail(words))

\* no request for a manifest
NoManifestReq == [description |-> <<>>, provider |-> <<>>]

\* ai.GetEmbeddedMockResources
GetEmbeddedMockResources == <<
    [Name |-> "sample-database-composition", Type |-> "compositions", Status |-> "Ready", Provider |-> StrCrossplane, Age |-> "2h"],
    [Name |-> "xdatabases.example.org", Type |-> "compositeresourcedefinitions", Status |-> "Ready", Provider |-> StrCrossplane, Age |-> "2h"],
    [Name |-> "provider-aws", Type |-> "providers", Status |-> "Ready", Provider |-> StrCrossplane, Age |-> "1h"],
    [Name |-> "provider-gcp", Type |-> "providers", Status |-> "Ready", Provider |-> StrCrossplane, Age |-> "1h"],
    [Name |-> "provider-azure", Type |-> "providers", Status |-> "Ready", Provider |-> StrCrossplane, Age |-> "1h"],
    [Name |-> "sample-database-instance", Type |-> "dbinstances", Status |-> "Ready", Provider |-> StrAws, Age |-> "30m"],
    [Name |-> "web-server-instance", Type |-> "instances", Status |-> "Ready", Provider |-> StrAws, Age |-> "45m"],
    [Name |-> "data-storage-bucket", Type |-> "buckets", Status |-> "Ready", Provider |-> StrAws, Age |-> "1h"],
    [Name |-> "gcp-database-instance", Type |-> "databaseinstances", Status |-> "Ready", Provider |-> StrGcp, Age |-> "20m"],
    [Name |-> "azure-storage-account", Type |-> "accounts", Status |-> "Ready", Provider |-> <<"a","z","u","r","e">>, Age |-> "35m"],
    [Name |-> "failing-test-resource", Type |-> "instances", Status |-> "Not Ready", Provider |-> StrAws, Age |-> "5m"] >>

RECURSIVE SkipSpaces(_)
\* a text without its leading spaces
SkipSpaces(s) == IF s # <<>> /\ Head(s) = " " THEN SkipSpaces(Tail(s)) ELSE s

\* strings.TrimSpace
TrimSpace(s) ==
    LET ns == {i \in 1..Len(s) : s[i] # " "}
    IN IF ns = {}
       THEN <<>>
       ELSE SubSeq(s, CHOOSE i \in ns : \A j \in ns : i <= j,
                      CHOOSE i \in ns : \A j \in ns : i >= j)

\* the length of the first word of a text that starts with one
TokenLen(s) ==
    IF \E i \in 1..Len(s) : s[i] = " "
    THEN (CHOOSE i \in 1..Len(s) : s[i] = " " /\ \A j \in 1..(i - 1) : s[j] # " ") - 1
    ELSE Len(s)

\* cli.PromptUser on the lines waiting on standard input: fmt.Scanln(&input)
\* reads one word; it stops with an empty input at the end of input or at an
\* empty line (which it consumes), and when another word follows on the line
\* it consumes that word's first character and leaves the rest of the line
PromptUser(lines) ==
    IF lines = <<>>
    THEN [input |-> <<>>, rest |-> <<>>]
    ELSE LET body == SkipSpaces(Head(lines))
         IN IF body = <<>>
            THEN [input |-> <<>>, rest |-> Tail(lines)]
            ELSE LET n == TokenLen(body)
                     after == SkipSpaces(SubSeq(body, n + 1, Len(body)))
                 IN [input |-> SubSeq(body, 1, n),
                     rest |-> IF after = <<>>
                              THEN Tail(lines)
                              ELSE <<Tail(after)>> \o Tail(lines)]

generateDatabaseManifest(description, provider) ==
    Manifest("database manifest", providerOrAws(provider),
             IF Contains(ToLower(description), <<"p","o","s","t","g","r","e","s">>) THEN "postgres" ELSE "mysql",
             <<>>, "")

generateStorageManifest(description, provider) ==
    Manifest("storage manifest", providerOrAws(provider),
             IF Contains(ToLower(description), <<"v","e","r","s","i","o","n">>)
             THEN "versioning: true" ELSE "versioning: false",
             <<>>, "")

generateNetworkManifest(description, provider) ==
    Manifest("network manifest", providerOrAws(provider), "", <<>>, "")

generateComputeManifest(description, provider) ==
    Manifest("compute manifest", providerOrAws(provider), "", <<>>, "")

generateWebAppManifest(description, provider) ==
    Manifest("web app manifest", providerOrAws(provider), "", <<>>, "")

generateDefaultManifest(description, provider) ==
    Manifest("default manifest", provider, "", description, "")

\* cmd generateManifest
generateManifest(real, description, provider, reply) ==
    LET m == GenerateManifest(real, description, provider, reply)
        descriptionLower == ToLower(description)
        has(w) == Contains(descriptionLower, w)
    IN IF m.err
       THEN [manifest |-> NoManifest, err |-> TRUE, requests |-> m.requests]
       ELSE [manifest |->
                IF m.manifest # NoManifest
                THEN m.manifest
                ELSE IF has(<<"d","a","t","a","b","a","s","e">>) \/ has(<<"d","b">>) \/ has(<<"m","y","s","q","l">>) \/ has(<<"p","o","s","t","g","r","e","s">>)
                THEN generateDatabaseManifest(description, provider)
                ELSE IF has(<<"s","t","o","r","a","g","e">>) \/ has(<<"b","u","c","k","e","t">>) \/ has(<<"s","3">>)
                THEN generateStorageManifest(description, provider)
                ELSE IF has(<<"n","e","t","w","o","r","k">>) \/ has(<<"v","p","c">>) \/ has(<<"s","u","b","n","e","t">>)
                THEN generateNetworkManifest(description, provider)
                ELSE IF has(<<"s","e","r","v","e","r">>) \/ has(<<"i","n","s","t","a","n","c","e">>) \/ has(<<"c","o","m","p","u","t","e">>)
                THEN generateComputeManifest(description, provider)
                ELSE IF has(<<"w","e","b"," ","a","p","p">>) \/ has(<<"a","p","p","l","i","c","a","t","i","o","n">>)
                THEN generateWebAppManifest(description, provider)
                ELSE generateDefaultManifest(description, provider),
             err |-> FALSE, requests |-> m.requests]

\* applyManifest creating the manifest's resources in the cluster
applyManifest_Create(m) == [err |-> FALSE, calls |-> <<[verb |-> "create", kind |-> 0]>>]

\* applyManifest: the error it returns and the requests it sends to the
\* cluster API
applyManifest(m) == [err |-> FALSE, calls |-> <<>>]

\* what a run of generate that made no manifest returns
GenerateFailed(out, steps0, requests) ==
    [err |-> TRUE, out |-> out, req |-> NoManifestReq, manifest |-> NoManifest,
     steps |-> steps0, calls |-> <<>>, requests |-> requests]

\* runGenerate: the error it returns, the last message printed, the
\* description and provider it asked a manifest for, the manifest printed,
\* the calls it makes, and the requests sent to the cluster API and to the
\* completion service
runGenerate(real, kubeOK, description, provider, outputFormat, dryRun, apply, reply) ==
    IF ~kubeOK
    THEN GenerateFailed("failed to initialize Crossplane client", <<"NewClient">>, 0)
    ELSE LET m == generateManifest(real, description, provider, reply)
             req == [description |-> description, provider |-> provider]
             made == <<"NewClient", "NewService", "generateManifest">>
         IN IF m.err
            THEN [GenerateFailed("failed to generate manifest", made, m.requests)
                     EXCEPT !.req = req]
            ELSE IF dryRun
            THEN [err |-> FALSE,
                  out |-> "Dry run mode - manifest generated but not applied",
                  req |-> req, manifest |-> m.manifest, steps |-> made,
                  calls |-> <<>>, requests |-> m.requests]
            ELSE IF apply
            THEN LET a == applyManifest(m.manifest)
                 IN [err |-> a.err,
                     out |-> IF a.err THEN "failed to apply manifest"
                             ELSE "Manifest applied successfully!",
                     req |-> req, manifest |-> m.manifest,
                     steps |-> made \o <<"applyManifest">>,
                     calls |-> a.calls, requests |-> m.requests]
            ELSE [err |-> FALSE,
                  out |-> "Use --apply to apply this manifest to your cluster",
                  req |-> req, manifest |-> m.manifest, steps |-> made,
                  calls |-> <<>>, requests |-> m.requests]

\* runInteractiveGenerate going on with an empty description
runInteractiveGenerate_NoCheck(real, kubeOK, lines, reply) ==
    LET d == PromptUser(lines)
        p == PromptUser(d.rest)
        r == runGenerate(real, kubeOK, d.input,
                         IF p.input = <<>> THEN StrAuto ELSE p.input,
                         "yaml", FALSE, FALSE, reply)
    IN [r EXCEPT !.steps = <<"PromptUser", "PromptUser">> \o r.steps]

runInteractiveGenerate(real, kubeOK, lines, reply) ==
    LET d == PromptUser(lines)
        p == PromptUser(d.rest)
        r == runGenerate(real, kubeOK, d.input,
                         IF p.input = <<>> THEN StrAuto ELSE p.input,
                         "yaml", FALSE, FALSE, reply)
    IN IF d.input = <<>>
       THEN GenerateFailed("description is required", <<"PromptUser">>, 0)
       ELSE [r EXCEPT !.steps = <<"PromptUser", "PromptUser">> \o r.steps]

\* generateCmd.RunE
generateCmdRunE(real, kubeOK, a, lines, reply) ==
    IF Len(a.args) = 0
    THEN runInteractiveGenerate(real, kubeOK, lines, reply)
    ELSE runGenerate(real, kubeOK, Join(a.args), a.provider, a.output,
                     a.dryRun, a.apply, reply)

-----------------------------------------------------------------------------

(* cmd: analyze, suggest, ask and interactive *)

\* what a command returns: its error, the last message printed, the calls
\* it made in order, the requests sent to the cluster API, and the number
\* of requests sent to the completion service
Ran(err, out, steps0, calls, requests) ==
    [err |-> err, out |-> out, steps |-> steps0, calls |-> calls,
     requests |-> requests]

\* the one element of a set of one element
Only(S) == CHOOSE x \in S : TRUE

\* one command step followed by another
Then(a, b) ==
    Only({[err |-> y.err, out |-> y.out, steps |-> x.steps \o y.steps,
           calls |-> x.calls \o y.calls, requests |-> x.requests + y.requests] :
             x \in {a}, y \in {b}})

\* performMockAnalysis
performMockAnalysis(real, name, provider, reply) ==
    LET keep(res) == /\ (name = "" \/ res.Name = name)
                     /\ (provider = <<>> \/ res.Provider = provider)
        filteredResources == SelectSeq(GetEmbeddedMockResources, keep)
        a == AnalyzeResources(real, filteredResources, reply)
    IN IF Len(filteredResources) = 0
       THEN [err |-> FALSE,
             out |-> "No mock Crossplane resources found matching the criteria.",
             analysis |-> NoAnalysis,
             steps |-> <<"NewService", "GetEmbeddedMockResources">>,
             calls |-> <<>>, requests |-> 0]
       ELSE [err |-> a.err,
             out |-> IF a.err THEN "mock analysis failed" ELSE "mock analysis",
             analysis |-> IF a.err THEN NoAnalysis ELSE a.analysis,
             steps |-> <<"NewService", "GetEmbeddedMockResources", "AnalyzeResources">>,
             calls |-> <<>>, requests |-> a.requests]

\* analyzeCmd.RunE
analyzeCmdRunE(mock, real, kubeOK, server, name, provider, namespace, reply) ==
    IF mock
    THEN performMockAnalysis(real, name, provider, reply)
    ELSE IF ~kubeOK
    THEN [err |-> TRUE, out |-> "failed to initialize Crossplane client",
          analysis |-> NoAnalysis, steps |-> <<"NewClientWithOptions">>,
          calls |-> <<>>, requests |-> 0]
    ELSE LET r == performAnalysis(real, server, name, provider, namespace, reply)
         IN [r EXCEPT !.steps = <<"NewClientWithOptions", "NewService">> \o @]

\* cmd generateMockSuggestions: the case of the switch that is printed
cmdGenerateMockSuggestions(suggestionType0) ==
    LET t == ToLower(suggestionType0)
    IN IF t \in {<<"d","a","t","a","b","a","s","e">>, <<"d","b">>} THEN "mock database suggestions"
       ELSE IF t = <<"s","e","c","u","r","i","t","y">> THEN "mock security suggestions"
       ELSE IF t \in {<<"o","p","t","i","m","i","z","e">>, <<"o","p","t","i","m","i","z","a","t","i","o","n">>} THEN "mock optimization suggestions"
       ELSE IF t \in {<<"n","e","t","w","o","r","k">>, <<"n","e","t","w","o","r","k","i","n","g">>} THEN "mock network suggestions"
       ELSE "mock general suggestions"

\* cmd generateSuggestions
generateSuggestions(real, server, suggestionType0, reply, perLoopVar) ==
    LET all == GetAllResources(server)
        s == GenerateSuggestions(real, suggestionType0, reply, perLoopVar)
    IN IF all.err
       THEN [err |-> TRUE, out |-> "failed to get resources", suggestions |-> <<>>,
             steps |-> <<"GetAllResources">>, calls |-> all.calls, requests |-> 0]
       ELSE [err |-> s.err,
             out |-> IF s.err THEN "failed to generate suggestions" ELSE "AI Suggestions:",
             suggestions |-> IF s.err THEN <<>> ELSE s.suggestions,
             steps |-> <<"GetAllResources", "GenerateSuggestions">>,
             calls |-> all.calls, requests |-> s.requests]

\* suggestCmd.RunE
suggestCmdRunE(mock, real, kubeOK, server, args, reply, perLoopVar) ==
    LET suggestionType0 == IF Len(args) > 0 THEN args[1] ELSE <<"g","e","n","e","r","a","l">>
    IN IF mock
       THEN [err |-> FALSE, out |-> cmdGenerateMockSuggestions(suggestionType0),
             suggestions |-> <<>>, steps |-> <<"GetEmbeddedMockResources">>,
             calls |-> <<>>, requests |-> 0]
       ELSE IF ~kubeOK
       THEN [err |-> TRUE, out |-> "failed to initialize Crossplane client",
             suggestions |-> <<>>, steps |-> <<"NewClient">>,
             calls |-> <<>>, requests |-> 0]
       ELSE LET r == generateSuggestions(real, server, suggestionType0, reply, perLoopVar)
            IN [r EXCEPT !.steps = <<"NewClient", "NewService">> \o @]

\* handleMockAsk: the case of the switch that answers
handleMockAsk(question) ==
    LET questionLower == ToLower(question)
        has(w) == Contains(questionLower, w)
    IN IF has(<<"w","h","a","t">>) /\ has(<<"r","e","s","o","u","r","c","e","s">>) THEN Answer("mock resources", <<>>, "")
       ELSE IF has(<<"a","w","s">>) THEN Answer("mock aws", <<>>, "")
       ELSE IF has(<<"d","a","t","a","b","a","s","e">>) \/ has(<<"d","b">>) THEN Answer("mock database", <<>>, "")
       ELSE IF has(<<"n","o","t"," ","r","e","a","d","y">>) \/ has(<<"f","a","i","l","e","d">>) \/ has(<<"p","r","o","b","l","e","m">>)
       THEN Answer("mock issues", <<>>, "")
       ELSE IF has(<<"p","r","o","v","i","d","e","r","s">>) \/ has(<<"p","r","o","v","i","d","e","r">>) THEN Answer("mock providers", <<>>, "")
       ELSE Answer("mock default", question, "")

\* processQuestion (and processInteractiveQuery, which is the same code)
processQuestion(real, server, question, reply) ==
    LET all == GetAllResources(server)
        r == ProcessQuery(real, question, reply)
    IN IF all.err
       THEN [err |-> TRUE, out |-> "failed to get resources", response |-> NoAnswer,
             given |-> <<>>,
             steps |-> <<"GetAllResources">>, calls |-> all.calls, requests |-> 0]
       ELSE [err |-> r.err,
             out |-> IF r.err THEN "AI processing failed" ELSE "response",
             response |-> IF r.err THEN NoAnswer ELSE r.response,
             given |-> all.resources,
             steps |-> <<"GetAllResources", "ProcessQuery">>,
             calls |-> all.calls, requests |-> r.requests]

RECURSIVE runInteractiveMode(_, _, _, _)
\* runInteractiveMode over the lines waiting on standard input: an error of
\* a question is printed and the loop goes on
runInteractiveMode(real, server, lines, reply) ==
    IF lines = <<>>
    THEN [err |-> FALSE, out |-> "", response |-> NoAnswer, given |-> <<>>,
          steps |-> <<>>, calls |-> <<>>, requests |-> 0]
    ELSE LET question == TrimSpace(Head(lines))
         IN IF question = <<>>
            THEN runInteractiveMode(real, server, Tail(lines), reply)
            ELSE IF ToLower(question) = <<"e","x","i","t">>
            THEN [err |-> FALSE, out |-> "Goodbye!", response |-> NoAnswer,
                  given |-> <<>>, steps |-> <<>>, calls |-> <<>>, requests |-> 0]
            ELSE Only({[err |-> FALSE,
                        out |-> IF later.out = "" THEN r.out ELSE later.out,
                        response |-> IF later.response = NoAnswer THEN r.response
                                     ELSE later.response,
                        given |-> IF later.given = <<>> THEN r.given
                                  ELSE later.given,
                        steps |-> r.steps \o later.steps,
                        calls |-> r.calls \o later.calls,
                        requests |-> r.requests + later.requests] :
                          r \in {processQuestion(real, server, question, reply)},
                          later \in {runInteractiveMode(real, server, Tail(lines), reply)}})

\* askCmd.RunE
askCmdRunE(mock, real, kubeOK, server, args, lines, reply) ==
    LET question == Join(args)
    IN IF mock
       THEN IF question = <<>>
            THEN [err |-> FALSE, out |-> "Interactive mode not supported in mock mode.",
                  response |-> NoAnswer, given |-> <<>>,
                  steps |-> <<>>, calls |-> <<>>, requests |-> 0]
            ELSE [err |-> FALSE, out |-> "response", response |-> handleMockAsk(question),
                  given |-> <<>>,
                  steps |-> <<"handleMockAsk", "GetEmbeddedMockResources">>,
                  calls |-> <<>>, requests |-> 0]
       ELSE IF ~kubeOK
       THEN [err |-> TRUE, out |-> "failed to initialize Crossplane client",
             response |-> NoAnswer, given |-> <<>>, steps |-> <<"NewClient">>,
             calls |-> <<>>, requests |-> 0]
       ELSE LET r == IF question = <<>>
                     THEN runInteractiveMode(real, server, lines, reply)
                     ELSE processQuestion(real, server, question, reply)
            IN [r EXCEPT !.steps = <<"NewClient", "NewService">> \o @]

\* strings.ToLower on a resource status
ToLowerStatus(st) ==
    CASE st = "Ready" -> "ready"
      [] st = "Not Ready" -> "not ready"
      [] st = "Unknown" -> "unknown"
      [] OTHER -> st

\* performQuickAnalysis
performQuickAnalysis(server) ==
    LET all == GetAllResources(server)
        ready == {i \in 1..Len(all.resources) :
                     ToLowerStatus(all.resources[i].Status) = "ready"}
    IN IF all.err
       THEN Ran(TRUE, "Initial analysis failed", <<"GetAllResources">>, all.calls, 0)
       ELSE IF Len(all.resources) = 0
       THEN Ran(FALSE, "No Crossplane resources found in the cluster",
                <<"GetAllResources">>, all.calls, 0)
       ELSE IF Cardinality(ready) < Len(all.resources)
       THEN Ran(FALSE, "Some resources are not ready - type 'health' for details",
                <<"GetAllResources">>, all.calls, 0)
       ELSE Ran(FALSE, "Status", <<"GetAllResources">>, all.calls, 0)

\* performDetailedAnalysis
performDetailedAnalysis(real, server, reply) ==
    LET all == GetAllResources(server)
        a == AnalyzeResources(real,
                 [i \in 1..Len(all.resources) |-> toResourceInfo(all.resources[i])],
                 reply)
    IN IF all.err
       THEN Ran(FALSE, "Failed to get resources", <<"GetAllResources">>, all.calls, 0)
       ELSE Ran(FALSE, IF a.err THEN "Analysis failed" ELSE "Analysis Results",
                <<"GetAllResources", "AnalyzeResources">>, all.calls, a.requests)

\* showResourceStatus
showResourceStatus(server) ==
    LET all == GetAllResources(server)
    IN Ran(FALSE, IF all.err THEN "Failed to get resources" ELSE "Resource Status",
           <<"GetAllResources">>, all.calls, 0)

\* performHealthCheck
performHealthCheck(server) ==
    LET all == GetAllResources(server)
    IN Ran(FALSE, IF all.err THEN "Failed to get resources" ELSE "Overall Health",
           <<"GetAllResources">>, all.calls, 0)

\* showSuggestions
showSuggestions(real, server, suggestionType0, reply, perLoopVar) ==
    LET r == generateSuggestions(real, server, suggestionType0, reply, perLoopVar)
    IN Only({Ran(FALSE, IF x.err THEN "Failed to generate suggestions" ELSE x.out,
                 x.steps, x.calls, x.requests) : x \in {r}})

\* strings.Fields: the words of a text
RECURSIVE Fields(_)
Fields(s) ==
    LET body == SkipSpaces(s)
        n == TokenLen(body)
    IN IF body = <<>>
       THEN <<>>
       ELSE <<SubSeq(body, 1, n)>> \o Fields(SubSeq(body, n + 1, Len(body)))

\* handleSpecialCommands: whether the input was handled, whether the
\* session ends, and what the command did
handleSpecialCommands(real, server, input, reply, perLoopVar) ==
    LET command == ToLower(TrimSpace(input))
        parts == Fields(input)
        did(r) == [handled |-> TRUE, exit |-> FALSE, ran |-> r]
    IN IF command \in {<<"e","x","i","t">>, <<"q","u","i","t">>, <<"q">>}
       THEN [handled |-> TRUE, exit |-> TRUE, ran |-> Ran(FALSE, "", <<>>, <<>>, 0)]
       ELSE IF command \in {<<"h","e","l","p">>, <<"?">>}
       THEN did(Ran(FALSE, "help", <<"printInteractiveHelp">>, <<>>, 0))
       ELSE IF command = <<"a","n","a","l","y","z","e">>
       THEN did(performDetailedAnalysis(real, server, reply))
       ELSE IF command = <<"s","t","a","t","u","s">>
       THEN did(showResourceStatus(server))
       ELSE IF command = <<"h","e","a","l","t","h">>
       THEN did(performHealthCheck(server))
       ELSE IF HasPrefix(command, <<"s","u","g","g","e","s","t">>)
       THEN did(showSuggestions(real, server,
                    IF Len(parts) > 1 THEN parts[2] ELSE <<"g","e","n","e","r","a","l">>,
                    reply, perLoopVar))
       ELSE [handled |-> FALSE, exit |-> FALSE, ran |-> Ran(FALSE, "", <<>>, <<>>, 0)]

RECURSIVE startInteractiveLoop(_, _, _, _, _)
\* startInteractiveLoop over the lines waiting on standard input
startInteractiveLoop(real, server, lines, reply, perLoopVar) ==
    IF lines = <<>>
    THEN Ran(FALSE, "Thanks for using Crossplane AI! Goodbye!", <<>>, <<>>, 0)
    ELSE LET input == TrimSpace(Head(lines))
             later == startInteractiveLoop(real, server, Tail(lines), reply, perLoopVar)
             handle(h) ==
                 IF h.handled
                 THEN IF h.exit
                      THEN Ran(FALSE, "Thanks for using Crossplane AI! Goodbye!",
                               <<>>, <<>>, 0)
                      ELSE Then(h.ran, later)
                 ELSE Then(Only({Ran(FALSE, q.out, q.steps, q.calls, q.requests) :
                                   q \in {processQuestion(real, server, input, reply)}}),
                           later)
         IN IF input = <<>>
            THEN later
            ELSE Only({handle(h) :
                         h \in {handleSpecialCommands(real, server, input, reply,
                                                      perLoopVar)}})

\* runInteractiveSession
runInteractiveSession(real, kubeOK, server, showBanner, initialAnalyze, lines, reply, perLoopVar) ==
    LET start == Ran(FALSE, "", <<"NewClient", "NewService", "printInteractiveHelp">>,
                     <<>>, 0)
        quick == performQuickAnalysis(server)
        loop == startInteractiveLoop(real, server, lines, reply, perLoopVar)
    IN IF ~kubeOK
       THEN Ran(TRUE, "failed to initialize Crossplane client", <<"NewClient">>, <<>>, 0)
       ELSE IF initialAnalyze
       THEN Then(start, Then(Only({[x EXCEPT !.err = FALSE] : x \in {quick}}), loop))
       ELSE Then(start, loop)

-----------------------------------------------------------------------------

(* Inputs *)

\* metadata of the raw objects given to the classifier, each with the index
\* of the catalog entry it is listed under
Metas ==
    { [name |-> "xrd1", namespace |-> "", created |-> FALSE, kind |-> 2],
      [name |-> "db1", namespace |-> "default", created |-> TRUE, kind |-> 5],
      [name |-> "vm1", namespace |-> "prod", created |-> TRUE, kind |-> 13] }

\* the raw object of a metadata entry with a status
RawObj(m, st) ==
    [name |-> m.name, namespace |-> m.namespace, created |-> m.created, status |-> st]

\* API groups outside the catalog
GroupX == <<"x">>
GroupAcme == <<"x",".","a","c","m","e",".","i","o">>
GroupDot == <<".">>
Groups ==
    {resourceTypes[i].Group : i \in 1..Len(resourceTypes)}
        \cup {GroupX, GroupAcme, GroupDot, <<>>}

\* the objects the API server of the discovery runs holds
ObjA ==
    [name |-> "a", namespace |-> "default", created |-> TRUE,
     status |-> [kind |-> "map", ready |-> "true",
                 conditions |-> [kind |-> "absent", items |-> <<>>]]]
ObjB ==
    [name |-> "b", namespace |-> "", created |-> TRUE,
     status |-> [kind |-> "map", ready |-> Absent,
                 conditions |-> [kind |-> "slice",
                                 items |-> <<[isMap |-> TRUE, type |-> "Ready",
                                              status |-> "False"]>>]]]

ListReplies ==
    {ErrReply, EmptyReply, [err |-> FALSE, items |-> <<ObjA>>],
     [err |-> FALSE, items |-> <<ObjB, ObjA>>]}

\* the catalog entries whose list reply may differ from the others'
DevKinds == {1, 3, 5, 6, 9, 14}

\* API servers: every list call fails, or every list call returns nothing,
\* except for at most MaxDev kinds
ApiServers ==
    UNION {
        UNION {
            {[i \in 1..Len(resourceTypes) |-> IF i \in D THEN d[i] ELSE base] :
                d \in [D -> ListReplies \ {base}]} :
            D \in {X \in SUBSET DevKinds : Cardinality(X) <= MaxDev}} :
        base \in {ErrReply, EmptyReply}}

FilterArgs ==
    [name : {"", "a", "b"}, provider : {<<>>, StrAws}, namespace : {"", "default"}]

\* request texts: up to MaxFrags fragments
Fragments ==
    { <<"w","h","a","t"," ">>, <<"r","e","s","o","u","r","c","e","s">>, <<"a","w","s">>, <<"d","a","t","a","b","a","s","e">>, <<"d","b">>,
      <<"n","o","t"," ","r","e","a","d","y">>, <<"f","a","i","l","e","d">>, <<"C","o","s","t">>, <<"e","x","p","e","n","s","i","v","e">>, <<"h","i"," ">> }
Queries == {Concat(fs) : fs \in SeqUpTo(Fragments, MaxFrags)}

\* the records given to AnalyzeResources
Infos ==
    { [Name |-> "a", Type |-> "dbinstances", Status |-> "Ready", Provider |-> StrAws, Age |-> "2h"],
      [Name |-> "b", Type |-> "instances", Status |-> "Not Ready", Provider |-> StrAws, Age |-> "30m"],
      [Name |-> "c", Type |-> "buckets", Status |-> "Unknown", Provider |-> StrGcp, Age |-> "5m"],
      [Name |-> "d", Type |-> "accounts", Status |-> "Ready", Provider |-> <<"a","z","u","r","e">>, Age |-> "1h"] }
ResourceLists == SeqUpTo(Infos, MaxRes)

\* the types given to GenerateSuggestions
SuggestionTypes ==
    { <<"d","a","t","a","b","a","s","e">>, <<"D","B">>, <<"s","e","c","u","r","i","t","y">>, <<"O","p","t","i","m","i","z","e">>,
      <<"o","p","t","i","m","i","z","a","t","i","o","n">>, <<"n","e","t","w","o","r","k">>, <<"g","e","n","e","r","a","l">>, <<>> }

\* the positional arguments of generate
ArgLists ==
    { <<>>, <<<<"M","y","S","Q","L">>, <<"d","a","t","a","b","a","s","e">>>>, <<<<"d","b">>>>,
      <<<<"S","3">>, <<"b","u","c","k","e","t">>, <<"v","e","r","s","i","o","n","e","d">>>>, <<<<"v","p","c">>>>,
      <<<<"I","n","s","t","a","n","c","e">>>>, <<<<"w","e","b">>, <<"a","p","p">>>>, <<<<"q","u","e","u","e">>>> }

\* the descriptions and providers given to GenerateManifest
Descriptions == {Join(a) : a \in ArgLists}
ProviderArgs == {<<>>, StrAuto, StrGcp}

\* the flags and positional arguments of generate
GenArgs ==
    [args : ArgLists, provider : ProviderArgs, output : {"yaml", "json"},
     dryRun : BOOLEAN, apply : BOOLEAN]

\* the lines typed at the prompts of generate
TypedInputs ==
    { <<>>, <<<<>>>>, <<<<"d","b">>, <<>>>>, <<<<"b","u","c","k","e","t">>, <<"g","c","p">>>>,
      <<<<"m","y","s","q","l"," ","d","a","t","a","b","a","s","e">>>>, <<<<" ">>, <<"d","b">>>>, <<<<" "," ","v","p","c"," "," ">>>> }

\* the API servers the commands other than analyze meet
CmdServers ==
    {[i \in 1..Len(resourceTypes) |-> IF i = 5 THEN d ELSE base] :
        base \in {ErrReply, EmptyReply}, d \in {EmptyReply, [err |-> FALSE, items |-> <<ObjB, ObjA>>]}}

\* the positional arguments of suggest and of ask
SuggestArgs == {<<>>} \cup {<<t>> : t \in SuggestionTypes \ {<<>>}}
AskArgs ==
    { <<>>, <<<<"w","h","a","t">>, <<"r","e","s","o","u","r","c","e","s">>>>, <<<<"A","W","S">>>>, <<<<"m","y">>, <<"d","b">>>>,
      <<<<"f","a","i","l","e","d">>>>, <<<<"p","r","o","v","i","d","e","r">>>>, <<<<"h","e","l","l","o">>>> }

\* the flags of ask
AskFlags == [name : {""}, provider : {<<>>, StrAws, StrGcp}, namespace : {"", "default"}]

\* the lines typed in a session of ask or of interactive: up to MaxLines
AskLines == {<<>>, <<" ","E","x","i","t"," ">>, <<"w","h","a","t"," ","r","e","s","o","u","r","c","e","s">>, <<"h","e","l","l","o">>}
SessionLines ==
    { <<>>, <<"q">>, <<"H","e","l","p">>, <<"a","n","a","l","y","z","e">>, <<"s","t","a","t","u","s">>, <<"h","e","a","l","t","h">>,
      <<"s","u","g","g","e","s","t"," ","d","b">>, <<"w","h","a","t"," ","r","e","s","o","u","r","c","e","s">> }
SessionArgs == [banner : BOOLEAN, analyze : BOOLEAN]
\* the API servers and the replies of the completion service a session of
\* interactive meets
SessionServers == {sv \in CmdServers : sv[5].items # <<>>}
SessionReplies ==
    {r \in HttpReplies :
        \/ ~r.arrived
        \/ r.bodyJSON /\ r.choices # <<>> /\ r.choices[1].id = "prose"}

\* the replies a call of the service can meet: none is awaited in template mode
RepliesFor(real) == IF real THEN HttpReplies ELSE {NoReply}

-----------------------------------------------------------------------------
(* mcp: the server on standard input and output *)

\* An MCPRequest as json.Decoder fills it. ID is the text of the id member
\* ("null" when there is none). Params: whether it is a JSON object, and the
\* members the handlers read from it; a member that is missing and one of
\* another type fail the handler's type assertion alike.
NoToolArgs ==
    [isMap |-> FALSE, hasQuestion |-> FALSE, question |-> <<>>,
     provider |-> <<>>, namespace |-> "", hasDescription |-> FALSE,
     description |-> <<>>, suggestionType |-> <<>>]
NoParams ==
    [isMap |-> FALSE, hasName |-> FALSE, name |-> "", hasURI |-> FALSE,
     uri |-> "", arguments |-> NoToolArgs]

\* an *MCPError that is nil
NoError == [set |-> FALSE, Code |-> 0]

\* the MCPResponse literal with Result set; a Result of "" is the nil one
MCPResponse(id, result) ==
    [Jsonrpc |-> "2.0", ID |-> id, Result |-> result, Error |-> NoError]

\* MCPServer.errorResponse
errorResponse(id, code) ==
    [Jsonrpc |-> "2.0", ID |-> id, Result |-> "",
     Error |-> [set |-> TRUE, Code |-> code]]

\* what a handler did: its response, the resources it handed to the AI
\* service, whether it called the service, and the completion requests sent
Handled(resp, given, called, requests) ==
    [response |-> resp, given |-> given, called |-> called, requests |-> requests]

\* MCPServer.getResources keeping an empty result of the filter
getResources_NoFallback(hasClient, server, args) ==
    IF hasClient
    THEN Only({ IF ~r.err
                THEN [i \in 1..Len(r.resources) |-> toResourceInfo(r.resources[i])]
                ELSE GetEmbeddedMockResources :
                r \in {GetFilteredResources(server, "", args.provider, args.namespace)} })
    ELSE GetEmbeddedMockResources

\* MCPServer.getResources: the cluster's resources under the filters, and
\* the embedded mock resources when there is no client, the listing failed,
\* or nothing matched
getResources(hasClient, server, args) ==
    IF hasClient
    THEN Only({ IF ~r.err /\ Len(r.resources) > 0
                THEN [i \in 1..Len(r.resources) |-> toResourceInfo(r.resources[i])]
                ELSE GetEmbeddedMockResources :
                r \in {GetFilteredResources(server, "", args.provider, args.namespace)} })
    ELSE GetEmbeddedMockResources

\* MCPServer.handleCrossplaneAsk
handleCrossplaneAsk(hasClient, real, server, id, args, reply) ==
    IF ~args.hasQuestion
    THEN Handled(errorResponse(id, -32602), <<>>, FALSE, 0)
    ELSE Only({ Handled(IF r.err THEN errorResponse(id, -32603)
                        ELSE MCPResponse(id, "text"),
                        resources, TRUE, r.requests) :
                resources \in {getResources(hasClient, server, args)},
                r \in {ProcessQuery(real, args.question, reply)} })

\* MCPServer.handleCrossplaneAnalyze
handleCrossplaneAnalyze(hasClient, real, server, id, args, reply) ==
    Only({ Handled(IF AnalyzeResources(real, resources, reply).err
                   THEN errorResponse(id, -32603)
                   ELSE MCPResponse(id, "text"),
                   resources, TRUE,
                   AnalyzeResources(real, resources, reply).requests) :
           resources \in {getResources(hasClient, server, args)} })

\* MCPServer.handleCrossplaneSuggest
handleCrossplaneSuggest(hasClient, real, server, id, args, reply, perLoopVar) ==
    Only({ Handled(IF s.err THEN errorResponse(id, -32603)
                   ELSE MCPResponse(id, "text"),
                   resources, TRUE, s.requests) :
           resources \in {getResources(hasClient, server, args)},
           s \in {GenerateSuggestions(real,
                      IF args.suggestionType = <<>> THEN <<"o","p","t","i","m","i","z","a","t","i","o","n">>
                      ELSE args.suggestionType, reply, perLoopVar)} })

\* MCPServer.handleCrossplaneGenerate
handleCrossplaneGenerate(real, id, args, reply) ==
    IF ~args.hasDescription
    THEN Handled(errorResponse(id, -32602), <<>>, FALSE, 0)
    ELSE Only({ Handled(IF m.err THEN errorResponse(id, -32603)
                        ELSE MCPResponse(id, "text"),
                        <<>>, TRUE, m.requests) :
                m \in {GenerateManifest(real, args.description,
                           IF args.provider = <<>> THEN StrAws ELSE args.provider,
                           reply)} })

\* MCPServer.handleCrossplaneListResources
handleCrossplaneListResources(hasClient, server, id, args) ==
    Only({ Handled(MCPResponse(id, "text"), <<>>, FALSE, 0) :
           resources \in {getResources(hasClient, server, args)} })

\* MCPServer.handleToolsCall; arguments that are no JSON object count as none
handleToolsCall(hasClient, real, server, request, reply, perLoopVar) ==
    LET params == request.Params
        id == request.ID
        arguments == IF params.arguments.isMap THEN params.arguments ELSE NoToolArgs
    IN IF ~params.isMap
       THEN Handled(errorResponse(id, -32602), <<>>, FALSE, 0)
       ELSE IF ~params.hasName
       THEN Handled(errorResponse(id, -32602), <<>>, FALSE, 0)
       ELSE CASE params.name = "crossplane_ask" ->
                    handleCrossplaneAsk(hasClient, real, server, id, arguments, reply)
              [] params.name = "crossplane_analyze" ->
                    handleCrossplaneAnalyze(hasClient, real, server, id, arguments, reply)
              [] params.name = "crossplane_suggest" ->
                    handleCrossplaneSuggest(hasClient, real, server, id, arguments, reply, perLoopVar)
              [] params.name = "crossplane_generate" ->
                    handleCrossplaneGenerate(real, id, arguments, reply)
              [] params.name = "crossplane_list_resources" ->
                    handleCrossplaneListResources(hasClient, server, id, arguments)
              [] OTHER -> Handled(errorResponse(id, -32601), <<>>, FALSE, 0)

\* MCPServer.handleResourcesRead
handleResourcesRead(hasClient, server, request) ==
    LET params == request.Params
        id == request.ID
    IN IF ~params.isMap
       THEN Handled(errorResponse(id, -32602), <<>>, FALSE, 0)
       ELSE IF ~params.hasURI
       THEN Handled(errorResponse(id, -32602), <<>>, FALSE, 0)
       ELSE IF params.uri \in {"crossplane://cluster/resources",
                               "crossplane://cluster/providers",
                               "crossplane://cluster/compositions"}
       THEN Handled(MCPResponse(id, "contents"), <<>>, FALSE, 0)
       ELSE Handled(errorResponse(id, -32602), <<>>, FALSE, 0)

\* MCPServer.handleRequest answering an unknown method with a result
handleRequest_AnswerUnknown(hasClient, real, server, request, reply, perLoopVar) ==
    CASE request.Method = "tools/call" ->
            handleToolsCall(hasClient, real, server, request, reply, perLoopVar)
      [] request.Method = "resources/read" ->
            handleResourcesRead(hasClient, server, request)
      [] OTHER -> Handled(MCPResponse(request.ID, "initialize"), <<>>, FALSE, 0)

\* MCPServer.handleRequest
handleRequest(hasClient, real, server, request, reply, perLoopVar) ==
    CASE request.Method = "initialize" ->
            Handled(MCPResponse(request.ID, "initialize"), <<>>, FALSE, 0)
      [] request.Method = "tools/list" ->
            Handled(MCPResponse(request.ID, "tools"), <<>>, FALSE, 0)
      [] request.Method = "tools/call" ->
            handleToolsCall(hasClient, real, server, request, reply, perLoopVar)
      [] request.Method = "resources/list" ->
            Handled(MCPResponse(request.ID, "resources"), <<>>, FALSE, 0)
      [] request.Method = "resources/read" ->
            handleResourcesRead(hasClient, server, request)
      [] OTHER -> Handled(errorResponse(request.ID, -32601), <<>>, FALSE, 0)

-----------------------------------------------------------------------------

(* State machine *)

NoObj == [name |-> "", namespace |-> "", created |-> FALSE,
          status |-> [kind |-> "absent", ready |-> Absent,
                      conditions |-> [kind |-> "absent", items |-> <<>>]]]
NoGvr == [Group |-> <<>>, Version |-> "", Resource |-> ""]
NoResource == [Name |-> "", Namespace |-> "", Type |-> "", Provider |-> <<>>,
               Status |-> "", Age |-> ""]
NoArgs == [name |-> "", provider |-> <<>>, namespace |-> ""]
NoGenArgs == [args |-> <<>>, provider |-> <<>>, output |-> "yaml",
              dryRun |-> FALSE, apply |-> FALSE]
NoSessionArgs == [banner |-> FALSE, analyze |-> FALSE]

\* nothing has run yet
Idle ==
    /\ op = "init"
    /\ obj = NoObj /\ gvr = NoGvr /\ resource = NoResource
    /\ apiServer = [i \in 1..Len(resourceTypes) |-> EmptyReply]
    /\ allResources = <<>> /\ listErr = FALSE
    /\ filterArgs = NoArgs /\ filtered = <<>>
    /\ cmdErr = FALSE /\ cmdOut = ""
    /\ openaiReply = NoReply /\ query = <<>>
    /\ response = NoAnswer /\ responseErr = FALSE
    /\ resourceList = <<>> /\ analysis = NoAnalysis
    /\ suggestionType = <<>> /\ suggestions = <<>>
    /\ manifestReq = NoManifestReq /\ manifest = NoManifest
    /\ genArgs = NoGenArgs /\ sessionArgs = NoSessionArgs
    /\ stdin = <<>> /\ steps = <<>>
    /\ clusterCalls = <<>> /\ aiRequests = 0
    /\ pc = "idle" /\ kindAt = 0
    /\ mcpIn = <<>> /\ mcpReqs = <<>> /\ mcpOut = <<>>
    /\ decErr = "" /\ logged = 0

\* the service as NewService builds it from the configuration and environment
\* the configuration and environment of a run that does not record them
NoConfig == [loadErr |-> FALSE, Provider |-> <<>>, APIKey |-> <<>>]
NoEnviron == <<>>

Init ==
    /\ Idle
    /\ mockFlag = FALSE /\ kubeconfigOK = TRUE
    /\ config = NoConfig /\ environ = NoEnviron
    /\ \E cfg \in Configs, env \in Envs :
        /\ useRealAI = NewService(cfg, env)
        /\ mockEnv = (Getenv(env, EnvMode) = StrMock)

\* a service in template mode
InitTemplate ==
    /\ Idle
    /\ mockFlag = FALSE /\ mockEnv = FALSE /\ kubeconfigOK = TRUE
    /\ config = NoConfig /\ environ = NoEnviron
    /\ useRealAI = FALSE

\* a service constructed by NewService from a recorded configuration and
\* environment, in a process started with or without the mock flag
InitConfigure ==
    /\ Idle
    /\ mockFlag \in BOOLEAN /\ kubeconfigOK = TRUE
    /\ config \in Configs /\ environ \in Envs
    /\ useRealAI = NewService(config, environ)
    /\ mockEnv = (Getenv(environ, EnvMode) = StrMock)

\* a process started with any flag, environment and configuration
InitCommand ==
    /\ Idle
    /\ mockFlag \in BOOLEAN /\ kubeconfigOK \in BOOLEAN
    /\ config = NoConfig /\ environ = NoEnviron
    /\ \E cfg \in Configs, env \in Envs :
        /\ useRealAI = NewService(cfg, env)
        /\ mockEnv = (Getenv(env, EnvMode) = StrMock)

ExtractProviderAct ==
    /\ op = "init"
    /\ \E g \in Groups :
        /\ gvr' = [NoGvr EXCEPT !.Group = g]
        /\ resource' = [NoResource EXCEPT !.Provider = extractProviderFromGroup(g)]
    /\ op' = "extractProviderFromGroup"
    /\ UNCHANGED <<obj, discoveryVars, commandVars, useRealAI, serviceVars,
                   generationVars, processVars, blockingVars, serverVars, runVars, clusterCalls, aiRequests>>

ConvertToResourceAct ==
    /\ op = "init"
    /\ \E m \in Metas, st \in StatusVals(MaxConds) :
        /\ obj' = RawObj(m, st)
        /\ gvr' = resourceTypes[m.kind]
        /\ resource' = convertToResource(RawObj(m, st), resourceTypes[m.kind])
    /\ op' = "convertToResource"
    /\ UNCHANGED <<discoveryVars, commandVars, useRealAI, serviceVars,
                   generationVars, processVars, blockingVars, serverVars, runVars, clusterCalls, aiRequests>>

GetAllResourcesAct ==
    /\ op = "init"
    /\ \E s \in ApiServers :
        LET r == GetAllResources(s)
        IN /\ apiServer' = s
           /\ allResources' = r.resources
           /\ listErr' = r.err
           /\ clusterCalls' = r.calls
    /\ op' = "GetAllResources"
    /\ UNCHANGED <<classifierVars, filterArgs, filtered, commandVars, useRealAI,
                   serviceVars, generationVars, processVars, blockingVars, serverVars, runVars, aiRequests>>

GetFilteredResourcesAct ==
    /\ op = "init"
    /\ \E s \in ApiServers, a \in FilterArgs :
        LET r == GetFilteredResources(s, a.name, a.provider, a.namespace)
        IN /\ apiServer' = s
           /\ filterArgs' = a
           /\ allResources' = GetAllResources(s).resources
           /\ filtered' = r.resources
           /\ listErr' = r.err
           /\ clusterCalls' = r.calls
    /\ op' = "GetFilteredResources"
    /\ UNCHANGED <<classifierVars, commandVars, useRealAI, serviceVars,
                   generationVars, processVars, blockingVars, serverVars, runVars, aiRequests>>

\* the API server and arguments a run of analyze meets: in mock mode and
\* without a cluster configuration no API server is reached, and where the
\* replies of the completion service vary the API servers are the few of
\* CmdServers
AnalyzeServers ==
    IF IsMockMode \/ ~kubeconfigOK THEN {apiServer}
    ELSE IF useRealAI THEN CmdServers
    ELSE ApiServers
AnalyzeArgs ==
    IF IsMockMode
    THEN [name : {"", "a", "provider-aws"}, provider : {<<>>, StrAws}, namespace : {""}]
    ELSE FilterArgs

AnalyzeCmdAct ==
    /\ op = "init"
    /\ \E s \in AnalyzeServers, a \in AnalyzeArgs, reply \in RepliesFor(useRealAI) :
       \E r \in {analyzeCmdRunE(IsMockMode, useRealAI, kubeconfigOK, s,
                                   a.name, a.provider, a.namespace, reply)} :
           /\ apiServer' = s
           /\ filterArgs' = a
           /\ openaiReply' = IF r.requests > 0 THEN reply ELSE NoReply
           /\ cmdErr' = r.err
           /\ cmdOut' = r.out
           /\ analysis' = r.analysis
           /\ steps' = r.steps
           /\ clusterCalls' = r.calls
           /\ aiRequests' = r.requests
    /\ op' = "analyze"
    /\ UNCHANGED <<classifierVars, allResources, listErr, filtered, useRealAI,
                   query, response, responseErr, resourceList, generationVars,
                   processVars, blockingVars, serverVars, genArgs, sessionArgs, stdin>>

\* the API servers a command other than analyze meets
ServersFor(mock) == IF mock \/ ~kubeconfigOK THEN {apiServer} ELSE CmdServers

GenerateCmdAct ==
    /\ op = "init"
    /\ \E a \in GenArgs, reply \in RepliesFor(useRealAI) :
       \E lines \in (IF a.args = <<>> THEN TypedInputs ELSE {<<>>}) :
       \E r \in {generateCmdRunE(useRealAI, kubeconfigOK, a, lines, reply)} :
           /\ genArgs' = a
           /\ stdin' = lines
           /\ openaiReply' = IF r.requests > 0 THEN reply ELSE NoReply
           /\ cmdErr' = r.err
           /\ cmdOut' = r.out
           /\ manifestReq' = r.req
           /\ manifest' = r.manifest
           /\ steps' = r.steps
           /\ clusterCalls' = r.calls
           /\ aiRequests' = r.requests
    /\ op' = "generate"
    /\ UNCHANGED <<classifierVars, discoveryVars, useRealAI, query, response,
                   responseErr, resourceList, analysis, suggestionType,
                   suggestions, processVars, blockingVars, serverVars, sessionArgs>>

SuggestCmdAct ==
    /\ op = "init"
    /\ \E s \in ServersFor(IsMockMode), args \in SuggestArgs,
          reply \in RepliesFor(useRealAI), perLoopVar \in BOOLEAN :
       \E r \in {suggestCmdRunE(IsMockMode, useRealAI, kubeconfigOK, s, args,
                                   reply, perLoopVar)} :
           /\ apiServer' = s
           /\ suggestionType' = IF Len(args) > 0 THEN args[1] ELSE <<"g","e","n","e","r","a","l">>
           /\ openaiReply' = IF r.requests > 0 THEN reply ELSE NoReply
           /\ cmdErr' = r.err
           /\ cmdOut' = r.out
           /\ suggestions' = r.suggestions
           /\ steps' = r.steps
           /\ clusterCalls' = r.calls
           /\ aiRequests' = r.requests
    /\ op' = "suggest"
    /\ UNCHANGED <<classifierVars, allResources, listErr, filterArgs, filtered,
                   useRealAI, query, response, responseErr, resourceList,
                   analysis, manifestReq, manifest, processVars, blockingVars, serverVars, genArgs,
                   sessionArgs, stdin>>

\* ask: the flags provider and namespace are declared, and RunE reads
\* neither
AskCmdAct ==
    /\ op = "init"
    /\ \E s \in ServersFor(IsMockMode), args \in AskArgs, flags \in AskFlags,
          reply \in RepliesFor(useRealAI) :
       \E lines \in (IF args = <<>> /\ ~IsMockMode /\ kubeconfigOK
                     THEN SeqUpTo(AskLines, MaxLines) ELSE {<<>>}) :
       \E r \in {askCmdRunE(IsMockMode, useRealAI, kubeconfigOK, s, args, lines, reply)} :
           /\ apiServer' = s
           /\ filterArgs' = flags
           /\ query' = Join(args)
           /\ resourceList' = r.given
           /\ stdin' = lines
           /\ openaiReply' = IF r.requests > 0 THEN reply ELSE NoReply
           /\ cmdErr' = r.err
           /\ cmdOut' = r.out
           /\ response' = r.response
           /\ steps' = r.steps
           /\ clusterCalls' = r.calls
           /\ aiRequests' = r.requests
    /\ op' = "ask"
    /\ UNCHANGED <<classifierVars, allResources, listErr, filtered,
                   useRealAI, responseErr, analysis,
                   generationVars, processVars, blockingVars, serverVars, genArgs, sessionArgs>>

InteractiveCmdAct ==
    /\ op = "init"
    /\ \E s \in (IF kubeconfigOK THEN SessionServers ELSE {apiServer}),
          a \in SessionArgs,
          reply \in (IF useRealAI THEN SessionReplies ELSE {NoReply}),
          perLoopVar \in BOOLEAN :
       \E lines \in (IF kubeconfigOK THEN SeqUpTo(SessionLines, MaxLines) ELSE {<<>>}) :
       \E r \in {runInteractiveSession(useRealAI, kubeconfigOK, s, a.banner,
                                          a.analyze, lines, reply, perLoopVar)} :
           /\ apiServer' = s
           /\ sessionArgs' = a
           /\ stdin' = lines
           /\ openaiReply' = IF r.requests > 0 THEN reply ELSE NoReply
           /\ cmdErr' = r.err
           /\ cmdOut' = r.out
           /\ steps' = r.steps
           /\ clusterCalls' = r.calls
           /\ aiRequests' = r.requests
    /\ op' = "interactive"
    /\ UNCHANGED <<classifierVars, allResources, listErr, filterArgs, filtered,
                   useRealAI, query, response, responseErr, resourceList,
                   analysis, generationVars, processVars, blockingVars, serverVars, genArgs>>

ProcessQueryAct ==
    /\ op = "init"
    /\ \E q \in Queries, reply \in RepliesFor(useRealAI) :
        LET r == ProcessQuery(useRealAI, q, reply)
        IN /\ query' = q
           /\ openaiReply' = reply
           /\ response' = r.response
           /\ responseErr' = r.err
           /\ aiRequests' = r.requests
    /\ op' = "ProcessQuery"
    /\ UNCHANGED <<classifierVars, discoveryVars, commandVars, useRealAI,
                   resourceList, analysis, generationVars, processVars, blockingVars, serverVars, runVars,
                   clusterCalls>>

AnalyzeResourcesAct ==
    /\ op = "init"
    /\ \E rs \in ResourceLists, reply \in RepliesFor(useRealAI) :
        LET r == AnalyzeResources(useRealAI, rs, reply)
        IN /\ resourceList' = rs
           /\ openaiReply' = reply
           /\ analysis' = r.analysis
           /\ responseErr' = r.err
           /\ aiRequests' = r.requests
    /\ op' = "AnalyzeResources"
    /\ UNCHANGED <<classifierVars, discoveryVars, commandVars, useRealAI,
                   query, response, generationVars, processVars, blockingVars, serverVars, runVars,
                   clusterCalls>>

GenerateSuggestionsAct ==
    /\ op = "init"
    /\ \E ty \in SuggestionTypes, reply \in RepliesFor(useRealAI),
          perLoopVar \in BOOLEAN :
        LET r == GenerateSuggestions(useRealAI, ty, reply, perLoopVar)
        IN /\ suggestionType' = ty
           /\ openaiReply' = reply
           /\ suggestions' = r.suggestions
           /\ responseErr' = r.err
           /\ aiRequests' = r.requests
    /\ op' = "GenerateSuggestions"
    /\ UNCHANGED <<classifierVars, discoveryVars, commandVars, useRealAI,
                   query, response, resourceList, analysis, manifestReq, manifest,
                   processVars, blockingVars, serverVars, runVars, clusterCalls>>

GenerateManifestAct ==
    /\ op = "init"
    /\ \E d \in Descriptions, p \in ProviderArgs, reply \in RepliesFor(useRealAI) :
        LET r == GenerateManifest(useRealAI, d, p, reply)
        IN /\ manifestReq' = [description |-> d, provider |-> p]
           /\ openaiReply' = reply
           /\ manifest' = r.manifest
           /\ responseErr' = r.err
           /\ aiRequests' = r.requests
    /\ op' = "GenerateManifest"
    /\ UNCHANGED <<classifierVars, discoveryVars, commandVars, useRealAI,
                   query, response, resourceList, analysis, suggestionType,
                   suggestions, processVars, blockingVars, serverVars, runVars, clusterCalls>>

NextClassifier == ExtractProviderAct \/ ConvertToResourceAct
NextDiscovery == GetAllResourcesAct \/ GetFilteredResourcesAct \/ AnalyzeCmdAct
\* One run of ask with a question, step by step, with the two calls the
\* goroutine blocks in: List of a kind (getResourcesOfType) and the POST to
\* the completion service (sendRequest).

\* askCmd.RunE up to processQuestion: the clients are built, discovery starts
RunStartAct ==
    /\ op = "init" /\ pc = "idle"
    /\ op' = "ask"
    /\ pc' = "list" /\ kindAt' = 1
    /\ steps' = <<"NewClient", "NewService", "GetAllResources">>
    /\ UNCHANGED <<classifierVars, discoveryVars, commandVars, useRealAI,
                   serviceVars, generationVars, processVars, serverVars, genArgs,
                   sessionArgs, stdin, clusterCalls, aiRequests>>

\* GetAllResources' loop reaches a kind: getResourcesOfType sends List under
\* the caller's context, which is context.Background()
ListSendAct ==
    /\ pc = "list" /\ kindAt <= Len(resourceTypes)
    /\ pc' = "awaitList"
    /\ clusterCalls' = Append(clusterCalls, ListCall(kindAt))
    /\ UNCHANGED <<op, classifierVars, discoveryVars, commandVars, useRealAI,
                   serviceVars, generationVars, processVars, serverVars, kindAt, runVars,
                   aiRequests>>

\* the API server answers the List, with items or with an error; the loop
\* skips a kind whose List failed and goes on
ListReplyAct ==
    /\ pc = "awaitList"
    /\ \E failed \in BOOLEAN :
        listErr' = (listErr \/ failed)
    /\ kindAt' = kindAt + 1
    /\ pc' = IF kindAt = Len(resourceTypes) THEN "generate" ELSE "list"
    /\ UNCHANGED <<op, classifierVars, apiServer, allResources, filterArgs,
                   filtered, commandVars, useRealAI, serviceVars,
                   generationVars, processVars, serverVars, runVars, clusterCalls,
                   aiRequests>>

\* processQuestion after discovery: ProcessQuery answers from the templates,
\* or sends the completion request through the http.Client
GenerateAct ==
    /\ pc = "generate"
    /\ steps' = Append(steps, "ProcessQuery")
    /\ IF useRealAI
       THEN /\ pc' = "awaitHttp"
            /\ aiRequests' = aiRequests + 1
            /\ UNCHANGED <<response, responseErr>>
       ELSE /\ pc' = "done"
            /\ response' = ProcessQuery(FALSE, query, NoReply).response
            /\ responseErr' = FALSE
            /\ UNCHANGED aiRequests
    /\ UNCHANGED <<op, classifierVars, discoveryVars, commandVars, useRealAI,
                   openaiReply, query, resourceList, analysis, generationVars,
                   processVars, serverVars, kindAt, genArgs, sessionArgs, stdin,
                   clusterCalls>>

\* the completion service answers within the http.Client's Timeout
HttpReplyAct ==
    /\ pc = "awaitHttp"
    /\ \E reply \in {h \in HttpReplies : h.arrived} :
        \E r \in {ProcessQuery(TRUE, query, reply)} :
            /\ openaiReply' = reply
            /\ response' = r.response
            /\ responseErr' = r.err
            /\ cmdErr' = r.err
    /\ pc' = "done"
    /\ UNCHANGED <<op, classifierVars, discoveryVars, cmdOut, useRealAI, query,
                   resourceList, analysis, generationVars, processVars, serverVars,
                   kindAt, runVars, clusterCalls, aiRequests>>

\* http.Client{Timeout}: thirty seconds by default; httpClient.Do returns an
\* error when no answer came in that time
HttpTimeoutAct ==
    /\ pc = "awaitHttp"
    /\ \E r \in {ProcessQuery(TRUE, query, NoReply)} :
        /\ openaiReply' = NoReply
        /\ response' = r.response
        /\ responseErr' = r.err
        /\ cmdErr' = r.err
    /\ pc' = "done"
    /\ UNCHANGED <<op, classifierVars, discoveryVars, cmdOut, useRealAI, query,
                   resourceList, analysis, generationVars, processVars, serverVars,
                   kindAt, runVars, clusterCalls, aiRequests>>

\* the arguments of a tool call: none at all, or an object with some of the
\* members the tools read
MCPToolArgs ==
    {NoToolArgs} \cup
    { [isMap |-> TRUE, hasQuestion |-> t, question |-> IF t THEN <<"w","h","a","t"," ","r","e","s","o","u","r","c","e","s">> ELSE <<>>,
       provider |-> p, namespace |-> n, hasDescription |-> t,
       description |-> IF t THEN <<"a"," ","m","y","s","q","l"," ","d","a","t","a","b","a","s","e">> ELSE <<>>,
       suggestionType |-> IF t THEN <<"s","e","c","u","r","i","t","y">> ELSE <<>>] :
      t \in BOOLEAN, p \in {<<>>, StrAws, <<"a","z","u","r","e">>}, n \in {"", "default"} }

MCPToolNames ==
    {"crossplane_ask", "crossplane_analyze", "crossplane_suggest",
     "crossplane_generate", "crossplane_list_resources"}

\* the params of a request: absent or no object, an object without the
\* member asked for, a tool call, a resource URI
MCPParams ==
    {NoParams, [NoParams EXCEPT !.isMap = TRUE]}
    \cup { [NoParams EXCEPT !.isMap = TRUE, !.hasName = TRUE, !.name = t, !.arguments = a] :
           t \in MCPToolNames \cup {"crossplane_delete"}, a \in MCPToolArgs }
    \cup { [NoParams EXCEPT !.isMap = TRUE, !.hasURI = TRUE, !.uri = u] :
           u \in {"crossplane://cluster/resources", "crossplane://cluster/none"} }

MCPMethods ==
    {"initialize", "tools/list", "tools/call", "resources/list",
     "resources/read", "ping"}

Request(id, method, params) == [ID |-> id, Method |-> method, Params |-> params]
NoRequest == Request("null", "", NoParams)

\* what json.Decoder meets next on standard input: a request, a JSON value
\* whose members do not fit MCPRequest, text that is no JSON, or a value cut
\* short by the end of the input
Item(kind, request) == [kind |-> kind, request |-> request]

\* one request of any shape
MCPRequests ==
    { Request(id, m, p) : id \in {"1", "null"}, m \in MCPMethods, p \in MCPParams }

\* the items of longer streams
StreamItems ==
    { Item("request", Request("1", "initialize", NoParams)),
      Item("request", Request("2", "tools/call",
           [NoParams EXCEPT !.isMap = TRUE, !.hasName = TRUE,
                            !.name = "crossplane_generate",
                            !.arguments = [NoToolArgs EXCEPT !.isMap = TRUE,
                                               !.hasDescription = TRUE,
                                               !.description = <<"a"," ","m","y","s","q","l"," ","d","a","t","a","b","a","s","e">>]])),
      Item("request", Request("3", "ping", NoParams)),
      Item("mistyped", NoRequest),
      Item("syntax", NoRequest),
      Item("truncated", NoRequest) }

\* standard input: up to MaxReqs items; a value cut short by the end of the
\* input is the last one
Streams ==
    { s \in SeqUpTo(StreamItems, MaxReqs) :
        \A i \in 1..Len(s) : s[i].kind = "truncated" => i = Len(s) }

\* main of the mcp server up to its loop: NewMCPServer builds the service and
\* the client, and goes on without a client when NewClient fails
MCPStartAct ==
    /\ op = "init" /\ pc = "idle"
    /\ op' = "mcp" /\ pc' = "decode"
    /\ mcpIn' \in Streams
    /\ apiServer' \in (IF kubeconfigOK THEN SessionServers ELSE {apiServer})
    /\ steps' = <<"NewService", "NewClient">>
    /\ UNCHANGED <<classifierVars, allResources, listErr, filterArgs, filtered,
                   commandVars, useRealAI, serviceVars, generationVars,
                   processVars, kindAt, mcpReqs, mcpOut, decErr, logged,
                   genArgs, sessionArgs, stdin, clusterCalls, aiRequests>>

\* the same, standard input holding one request of any shape
MCPStartOneAct ==
    /\ op = "init" /\ pc = "idle"
    /\ op' = "mcp" /\ pc' = "decode"
    /\ mcpIn' \in {<<Item("request", r)>> : r \in MCPRequests}
    /\ apiServer' \in (IF kubeconfigOK THEN SessionServers ELSE {apiServer})
    /\ steps' = <<"NewService", "NewClient">>
    /\ UNCHANGED <<classifierVars, allResources, listErr, filterArgs, filtered,
                   commandVars, useRealAI, serviceVars, generationVars,
                   processVars, kindAt, mcpReqs, mcpOut, decErr, logged,
                   genArgs, sessionArgs, stdin, clusterCalls, aiRequests>>

\* log.Printf of a decoding error; the count starts again after MaxLogged
LogError == IF logged < MaxLogged THEN logged + 1 ELSE 1

\* one turn of main's loop: Decode fills a request, handleRequest answers
\* it, Encode writes the response
DecodeRequestAct ==
    /\ pc = "decode" /\ decErr = ""
    /\ mcpIn # <<>> /\ Head(mcpIn).kind = "request"
    /\ \E reply \in (IF useRealAI THEN SessionReplies ELSE {NoReply}),
          perLoopVar \in BOOLEAN :
       \E h \in {handleRequest(kubeconfigOK, useRealAI, apiServer,
                               Head(mcpIn).request, reply, perLoopVar)} :
           /\ mcpReqs' = Append(mcpReqs, Head(mcpIn).request)
           /\ mcpOut' = Append(mcpOut, h.response)
           /\ resourceList' = h.given
           /\ openaiReply' = IF h.requests > 0 THEN reply ELSE openaiReply
           /\ aiRequests' = aiRequests + h.requests
    /\ filterArgs' = [name |-> "",
                      provider |-> Head(mcpIn).request.Params.arguments.provider,
                      namespace |-> Head(mcpIn).request.Params.arguments.namespace]
    /\ mcpIn' = Tail(mcpIn)
    /\ UNCHANGED <<op, classifierVars, apiServer, allResources, listErr,
                   filtered, commandVars, useRealAI, query, response,
                   responseErr, analysis, generationVars, processVars,
                   blockingVars, decErr, logged, runVars, clusterCalls>>

\* one turn of the loop on a JSON value that does not fit MCPRequest: Decode
\* consumes the value and returns the error, which is logged
DecodeMistypedAct ==
    /\ pc = "decode" /\ decErr = ""
    /\ mcpIn # <<>> /\ Head(mcpIn).kind = "mistyped"
    /\ logged' = LogError
    /\ mcpIn' = Tail(mcpIn)
    /\ UNCHANGED <<op, classifierVars, discoveryVars, commandVars, useRealAI,
                   serviceVars, generationVars, processVars, blockingVars,
                   mcpReqs, mcpOut, decErr, runVars, clusterCalls, aiRequests>>

\* one turn of the loop on text that is no JSON: the json.Decoder keeps the
\* syntax error and consumes nothing more
DecodeSyntaxErrorAct ==
    /\ pc = "decode" /\ decErr = ""
    /\ mcpIn # <<>> /\ Head(mcpIn).kind = "syntax"
    /\ decErr' = "invalid character"
    /\ logged' = LogError
    /\ UNCHANGED <<op, classifierVars, discoveryVars, commandVars, useRealAI,
                   serviceVars, generationVars, processVars, blockingVars,
                   mcpIn, mcpReqs, mcpOut, runVars, clusterCalls, aiRequests>>

\* one turn of the loop on a value the end of the input cuts short: the
\* json.Decoder keeps io.ErrUnexpectedEOF, whose text is not "EOF"
DecodeTruncatedAct ==
    /\ pc = "decode" /\ decErr = ""
    /\ mcpIn # <<>> /\ Head(mcpIn).kind = "truncated"
    /\ decErr' = "unexpected EOF"
    /\ logged' = LogError
    /\ mcpIn' = Tail(mcpIn)
    /\ UNCHANGED <<op, classifierVars, discoveryVars, commandVars, useRealAI,
                   serviceVars, generationVars, processVars, blockingVars,
                   mcpReqs, mcpOut, runVars, clusterCalls, aiRequests>>

\* one turn of the loop after such an error: Decode returns the error it
\* kept, the loop logs it and continues
DecodeAgainAct ==
    /\ pc = "decode" /\ decErr # ""
    /\ logged' = LogError
    /\ UNCHANGED <<op, classifierVars, discoveryVars, commandVars, useRealAI,
                   serviceVars, generationVars, processVars, blockingVars,
                   mcpIn, mcpReqs, mcpOut, decErr, runVars, clusterCalls,
                   aiRequests>>

\* Decode at the end of the input returns io.EOF and the loop breaks
DecodeEOFAct ==
    /\ pc = "decode" /\ decErr = ""
    /\ mcpIn = <<>>
    /\ pc' = "done"
    /\ UNCHANGED <<op, classifierVars, discoveryVars, commandVars, useRealAI,
                   serviceVars, generationVars, processVars, kindAt,
                   serverVars, runVars, clusterCalls, aiRequests>>

NextService ==
    ProcessQueryAct \/ AnalyzeResourcesAct \/ GenerateSuggestionsAct \/ GenerateManifestAct
NextCommand ==
    AnalyzeCmdAct \/ GenerateCmdAct \/ SuggestCmdAct \/ AskCmdAct \/ InteractiveCmdAct
Next == NextClassifier \/ NextDiscovery \/ NextService \/ NextCommand

\* the classifier on its own
SpecClassifier == InitTemplate /\ [][NextClassifier]_vars
\* discovery and the analyze command, with a service in template mode
SpecDiscovery == InitTemplate /\ [][NextDiscovery]_vars
\* the service in either mode
SpecService == Init /\ [][NextService]_vars
\* the commands, run with any flags, environment and cluster configuration
SpecCommand == InitCommand /\ [][NextCommand]_vars
\* the service's mode against the configuration it was constructed from
NextConfigure == GenerateSuggestionsAct \/ GenerateManifestAct
SpecConfigure == InitConfigure /\ [][NextConfigure]_vars
\* a run of ask in its steps. The goroutine's own steps and the http.Client's
\* timer are taken when they can be (weak fairness); whether and when the API
\* server or the completion service answers is theirs to decide.
NextBlocking ==
    \/ RunStartAct \/ ListSendAct \/ ListReplyAct
    \/ GenerateAct \/ HttpReplyAct \/ HttpTimeoutAct
InitBlocking ==
    /\ Idle
    /\ mockFlag = FALSE /\ mockEnv = FALSE /\ kubeconfigOK = TRUE
    /\ config = NoConfig /\ environ = NoEnviron
    /\ useRealAI \in BOOLEAN
SpecBlocking ==
    /\ InitBlocking /\ [][NextBlocking]_vars
    /\ WF_vars(RunStartAct) /\ WF_vars(ListSendAct)
    /\ WF_vars(GenerateAct) /\ WF_vars(HttpTimeoutAct)

\* one turn of the loop of main
LoopTurn ==
    \/ DecodeRequestAct \/ DecodeMistypedAct \/ DecodeSyntaxErrorAct
    \/ DecodeTruncatedAct \/ DecodeAgainAct \/ DecodeEOFAct
\* the mcp server answering requests
NextMCP == MCPStartOneAct \/ MCPStartAct \/ LoopTurn
\* the mcp server on a stream. Starting and every turn of the loop are the
\* program's own steps and are taken when they can be (weak fairness).
NextMCPLoop == MCPStartAct \/ LoopTurn
InitMCP ==
    /\ Idle
    /\ mockFlag = FALSE /\ mockEnv = FALSE /\ kubeconfigOK \in BOOLEAN
    /\ config = NoConfig /\ environ = NoEnviron
    /\ useRealAI \in BOOLEAN
SpecMCP == InitMCP /\ [][NextMCP]_vars
SpecMCPLoop == InitMCP /\ [][NextMCPLoop]_vars /\ WF_vars(NextMCPLoop)

Spec == Init /\ [][Next]_vars

-----------------------------------------------------------------------------
(* Properties *)

\* whether every list call of the discovery pass failed
TotalFailure == \A i \in 1..Len(resourceTypes) : apiServer[i].err

\* the number of records of a list with a status
CountStatus(rs, st) == Cardinality({i \in 1..Len(rs) : rs[i].Status = st})

\* the completion service was asked and the call failed: no reply arrived,
\* the status is not 200, the body is no JSON, or it holds no choice
CallFailed ==
    \/ ~openaiReply.arrived
    \/ openaiReply.statusCode # StatusOK
    \/ ~openaiReply.bodyJSON
    \/ openaiReply.choices = <<>>

\* C1: when the completion service is configured and its call fails,
\* ProcessQuery returns no error and the template answer for the same text.
C1_FallbackOnFailure ==
    (op = "ProcessQuery" /\ useRealAI /\ CallFailed)
        => (~responseErr /\ response = simulateAIResponse(query))

\* C2: the counts, the issues and the score AnalyzeResources returns for a
\* non-empty collection are those computed from the records' statuses,
\* whatever the completion service replies.
C2_ScoresFromStatusAlone ==
    (op = "AnalyzeResources" /\ Len(resourceList) > 0)
        => /\ analysis.TotalResources = Len(resourceList)
           /\ analysis.HealthyResources = CountStatus(resourceList, "Ready")
           /\ Len(analysis.Issues) = CountStatus(resourceList, "Not Ready")
           /\ analysis.HealthScore =
                  (CountStatus(resourceList, "Ready") * 100) \div Len(resourceList)

\* C3: a boolean status.ready decides the status (true: Ready, false: Not
\* Ready), whatever status.conditions holds.
C3_ReadyBoolWins ==
    (op = "convertToResource" /\ obj.status.kind = "map"
        /\ obj.status.ready \in {"true", "false"})
        => resource.Status = IF obj.status.ready = "true" THEN "Ready" ELSE "Not Ready"

OccursListed(r) ==
    Cardinality({p \in UNION {{<<i, k>> : k \in 1..Len(apiServer[i].items)} :
                                  i \in 1..Len(resourceTypes)} :
                    /\ ~apiServer[p[1]].err
                    /\ convertToResource(apiServer[p[1]].items[p[2]],
                                         resourceTypes[p[1]]) = r})

\* how often a record occurs in a list
Occurs(rs, r) == Cardinality({i \in 1..Len(rs) : rs[i] = r})

\* C5: GetAllResources returns no error, and its result holds exactly the
\* records of the kinds whose list call succeeded: failing kinds are skipped.
C5_PartialResults ==
    op = "GetAllResources"
        => /\ ~listErr
           /\ \A i \in 1..Len(resourceTypes) : \A k \in 1..Len(apiServer[i].items) :
                  LET r == convertToResource(apiServer[i].items[k], resourceTypes[i])
                  IN ~apiServer[i].err => Occurs(allResources, r) = OccursListed(r)
           /\ \A n \in 1..Len(allResources) :
                  Occurs(allResources, allResources[n]) = OccursListed(allResources[n])

C5_Witness ==
    /\ op = "GetAllResources"
    /\ \E i, j \in 1..Len(resourceTypes) :
           i < j /\ apiServer[i].err /\ ~apiServer[j].err /\ Len(apiServer[j].items) > 0
    /\ Len(allResources) > 0

\* C6: when every list call of the pass fails, the analyze command ends
\* with an error.
C6_TotalFailureIsFatal ==
    (op = "analyze" /\ TotalFailure) => cmdErr

\* whether a record passes the filters of the call
Passes(r) ==
    /\ filterArgs.name = "" \/ r.Name = filterArgs.name
    /\ filterArgs.provider = <<>> \/ r.Provider = filterArgs.provider
    /\ filterArgs.namespace = "" \/ r.Namespace = filterArgs.namespace

\* C7: GetFilteredResources returns the records of GetAllResources that
\* equal every non-empty filter, in the same relative order; with no filter
\* it returns the same sequence, with provider "aws" only aws records.
C7_FilterIsSubsequence ==
    op = "GetFilteredResources"
        => LET pass == {i \in 1..Len(allResources) : Passes(allResources[i])}
               nth(k) == CHOOSE i \in pass : Cardinality({j \in pass : j <= i}) = k
           IN /\ ~listErr
              /\ Len(filtered) = Cardinality(pass)
              /\ \A k \in 1..Len(filtered) : filtered[k] = allResources[nth(k)]
              /\ filterArgs = NoArgs => filtered = allResources
              /\ filterArgs.provider = StrAws
                    => \A k \in 1..Len(filtered) : filtered[k].Provider = StrAws

C7_Witness ==
    /\ op = "GetFilteredResources"
    /\ filterArgs.provider = StrAws /\ filterArgs.namespace = "default"
    /\ Len(filtered) > 0
    /\ Len(filtered) < Len(allResources)

\* whether the lower-cased request text holds a keyword
Has(kw) == Contains(ToLower(query), kw)

\* C8: in template mode the answer is chosen by the first rule that matches
\* the lower-cased text: what+resources, aws, database|db, not ready|failed,
\* cost|expensive, else the fallback quoting the text.
C8_KeywordPriority ==
    (op = "ProcessQuery" /\ ~useRealAI)
        => LET r1 == Has(KwWhat) /\ Has(KwResources)
               r2 == Has(KwAws)
               r3 == Has(KwDatabase) \/ Has(KwDb)
               r4 == Has(KwNotReady) \/ Has(KwFailed)
               r5 == Has(KwCost) \/ Has(KwExpensive)
           IN /\ ~responseErr
              /\ r1 => response.kind = "summary"
              /\ (~r1 /\ r2) => response.kind = "aws"
              /\ (~r1 /\ ~r2 /\ r3) => response.kind = "database"
              /\ (~r1 /\ ~r2 /\ ~r3 /\ r4) => response.kind = "troubleshooting"
              /\ (~r1 /\ ~r2 /\ ~r3 /\ ~r4 /\ r5) => response.kind = "cost"
              /\ (~r1 /\ ~r2 /\ ~r3 /\ ~r4 /\ ~r5)
                    => (response.kind = "fallback" /\ response.quoted = query)
              /\ (Has(KwAws) /\ Has(KwDatabase) /\ ~r1) => response.kind = "aws"

C8_Witness ==
    /\ op = "ProcessQuery" /\ ~useRealAI
    /\ Has(KwAws) /\ Has(KwDatabase) /\ ~(Has(KwWhat) /\ Has(KwResources))
    /\ response.kind = "aws"

\* C9: in template mode, for a non-empty collection, the total is the number
\* of records, the healthy count the number of Ready ones, and there is one
\* issue per Not Ready record, in input order, naming it; 4 Ready and 1 Not
\* Ready give 5, 4, score 80 and one issue.
C9_CountsAndIssues ==
    (op = "AnalyzeResources" /\ ~useRealAI /\ Len(resourceList) > 0)
        => LET bad == {i \in 1..Len(resourceList) : resourceList[i].Status = "Not Ready"}
               nth(k) == CHOOSE i \in bad : Cardinality({j \in bad : j <= i}) = k
           IN /\ analysis.TotalResources = Len(resourceList)
              /\ analysis.HealthyResources = CountStatus(resourceList, "Ready")
              /\ Len(analysis.Issues) = Cardinality(bad)
              /\ \A k \in 1..Len(analysis.Issues) :
                     analysis.Issues[k].Resource = resourceList[nth(k)].Name
              /\ analysis.IssuesFound = Len(analysis.Issues)
              /\ (Len(resourceList) = 5 /\ CountStatus(resourceList, "Ready") = 4
                     /\ Cardinality(bad) = 1)
                    => /\ analysis.TotalResources = 5
                       /\ analysis.HealthyResources = 4
                       /\ analysis.HealthScore = 80
                       /\ Len(analysis.Issues) = 1

C9_Witness ==
    /\ op = "AnalyzeResources" /\ ~useRealAI
    /\ Len(resourceList) = 5
    /\ CountStatus(resourceList, "Ready") = 4
    /\ CountStatus(resourceList, "Not Ready") = 1
    /\ analysis.HealthScore = 80
    /\ Len(analysis.Issues) = 1

\* whether the API group of the call is one of the two reserved groups
ReservedGroup == gvr.Group = GroupApiextensions \/ gvr.Group = GroupPkg

\* C10 as stated: for the two reserved groups provider inference returns
\* "platform".
C10_SentinelPlatform ==
    (op \in {"extractProviderFromGroup", "convertToResource"} /\ ReservedGroup)
        => resource.Provider = <<"p","l","a","t","f","o","r","m">>

\* C10 amended: for the two reserved groups provider inference returns the
\* fixed sentinel "crossplane".
C10_SentinelCrossplane ==
    (op \in {"extractProviderFromGroup", "convertToResource"} /\ ReservedGroup)
        => resource.Provider = StrCrossplane

C10_Witness ==
    /\ op = "extractProviderFromGroup"
    /\ gvr.Group = GroupApiextensions
    /\ resource.Provider = StrCrossplane

\* the positions of the dots of an API group
DotsOf(g) == {i \in 1..Len(g) : g[i] = "."}

\* C11: for an API group other than the two reserved ones, the provider is
\* the text between the first dot and the next one (or the end), and
\* "unknown" when the group has no dot; it depends on the group alone.
C11_SecondSegment ==
    (op \in {"extractProviderFromGroup", "convertToResource"} /\ ~ReservedGroup)
        => LET g == gvr.Group
               dots == DotsOf(g)
           IN IF dots = {}
              THEN resource.Provider = StrUnknown
              ELSE LET d1 == CHOOSE d \in dots : \A e \in dots : d <= e
                       later == {d \in dots : d > d1} \cup {Len(g) + 1}
                       d2 == CHOOSE d \in later : \A e \in later : d <= e
                   IN resource.Provider = SubSeq(g, d1 + 1, d2 - 1)

C11_Witness ==
    /\ op = "extractProviderFromGroup"
    /\ gvr.Group = GroupAcme
    /\ resource.Provider = <<"a","c","m","e">>

\* the object has a status map whose ready field is no boolean
ReadyNotBool ==
    /\ op = "convertToResource"
    /\ obj.status.kind = "map"
    /\ obj.status.ready \notin {"true", "false"}

\* the entries of the object's status.conditions (none when it is no list)
CondItems ==
    IF obj.status.conditions.kind = "slice" THEN obj.status.conditions.items ELSE <<>>

\* the status the first entry among a set of entries of status.conditions
\* gives: Unknown when there is none
FirstDecides(S) ==
    IF S = {}
    THEN "Unknown"
    ELSE LET first == CHOOSE i \in S : \A j \in S : i <= j
         IN IF CondItems[first].status = "True" THEN "Ready" ELSE "Not Ready"

\* C12 as stated: when status.ready is no boolean, the first entry of
\* status.conditions with type "Ready" decides: Ready if its status field is
\* "True", Not Ready for anything else, a missing or non-string status field
\* included; Unknown when there is no such entry.
C12_ReadyEntryDecides ==
    ReadyNotBool
        => resource.Status =
               FirstDecides({i \in 1..Len(CondItems) :
                                CondItems[i].isMap /\ CondItems[i].type = "Ready"})

\* C12 amended: when status.ready is no boolean, the first entry of
\* status.conditions with type "Ready" and a string status field decides:
\* Ready if the status is "True", Not Ready for any other string; Ready
\* entries whose status field is missing or no string are passed over, and
\* the status is Unknown when no entry decides.
C12_ReadyEntryWithStringStatus ==
    ReadyNotBool
        => resource.Status =
               FirstDecides({i \in 1..Len(CondItems) :
                                /\ CondItems[i].isMap
                                /\ CondItems[i].type = "Ready"
                                /\ CondItems[i].status \notin {Absent, NonString}})

C12_Witness ==
    /\ ReadyNotBool
    /\ Len(CondItems) = 2
    /\ CondItems[1].isMap /\ CondItems[1].type = "Ready"
    /\ CondItems[1].status = Absent
    /\ CondItems[2].isMap /\ CondItems[2].type = "Ready"
    /\ CondItems[2].status = "True"
    /\ resource.Status = "Ready"

\* C13: for every raw object the classifier returns a record, carrying the
\* object's name and namespace and the kind of the list call, whose status
\* is one of Ready, Not Ready and Unknown; an object with no status gets
\* Unknown.
C13_StatusTotal ==
    op = "convertToResource"
        => /\ resource.Name = obj.name
           /\ resource.Namespace = obj.namespace
           /\ resource.Type = gvr.Resource
           /\ resource.Status \in {"Ready", "Not Ready", "Unknown"}
           /\ obj.status.kind = "absent" => resource.Status = "Unknown"

C13_Witness ==
    /\ op = "convertToResource"
    /\ obj.status.kind = "absent"
    /\ ~obj.created
    /\ resource.Status = "Unknown"

\* the items the list calls that succeeded returned: <<catalog index, position
\* in the reply>>
ListedItems ==
    UNION {{<<i, k>> : k \in 1..Len(apiServer[i].items)} :
              i \in {j \in 1..Len(resourceTypes) : ~apiServer[j].err}}

\* C14: the result of GetAllResources holds the records kind after kind in
\* catalog order and, within a kind, in the order of the list reply: the
\* record of item k of kind i stands right after those of all earlier kinds
\* and of the items before it.
C14_CatalogThenReplyOrder ==
    op = "GetAllResources"
        => /\ Len(allResources) = Cardinality(ListedItems)
           /\ \A p \in ListedItems :
                  LET before == {q \in ListedItems :
                                    q[1] < p[1] \/ (q[1] = p[1] /\ q[2] < p[2])}
                  IN allResources[Cardinality(before) + 1] =
                         convertToResource(apiServer[p[1]].items[p[2]],
                                           resourceTypes[p[1]])

C14_Witness ==
    /\ op = "GetAllResources"
    /\ \E i, j \in 1..Len(resourceTypes) :
           /\ i < j
           /\ apiServer[i].items = <<ObjB, ObjA>>
           /\ apiServer[j].items = <<ObjA>>
    /\ Len(allResources) = 3
    /\ allResources[1].Name = "b"
    /\ allResources[2].Name = "a"
    /\ allResources[3].Type # allResources[2].Type

\* C15: when the completion service is configured and its call fails,
\* GenerateManifest returns no error and the template manifest for the same
\* description and provider.
C15_ManifestFallback ==
    (op = "GenerateManifest" /\ useRealAI /\ CallFailed)
        => /\ ~responseErr
           /\ manifest = generateTemplateManifest(manifestReq.description,
                                                  manifestReq.provider)

\* C16: when the completion service is configured and its call fails,
\* GenerateSuggestions and AnalyzeResources return no error and exactly what
\* they return in template mode for the same type, or the same records.
C16_FallbackEqualsTemplate ==
    /\ (op = "GenerateSuggestions" /\ useRealAI /\ CallFailed)
           => /\ ~responseErr
              /\ suggestions =
                     GenerateSuggestions(FALSE, suggestionType, NoReply, FALSE).suggestions
    /\ (op = "AnalyzeResources" /\ useRealAI /\ CallFailed)
           => /\ ~responseErr
              /\ analysis = AnalyzeResources(FALSE, resourceList, NoReply).analysis

C16_Witness ==
    /\ op = "GenerateSuggestions" /\ useRealAI
    /\ openaiReply.arrived /\ openaiReply.statusCode \in ErrorStatuses
    /\ aiRequests = 1
    /\ ~responseErr
    /\ Len(suggestions) = 2
    /\ suggestions[1].Title = "Enable Encryption at Rest"


\* the steps that initialise a cluster client
ClientInits == {"NewClient", "NewClientWithOptions"}
\* the commands
Commands == {"ask", "analyze", "suggest", "generate", "interactive"}
StepsMade == {steps[i] : i \in 1..Len(steps)}
CallsMade == {clusterCalls[i].verb : i \in 1..Len(clusterCalls)}

\* C17: in mock mode, enabled by the mock flag or by the environment
\* variable, no command sends a request to the completion service
C17_MockSendsNoRequest ==
    (op \in Commands /\ IsMockMode) => aiRequests = 0

\* C18: in mock mode every command completes without initialising a
\* cluster client and without a call to the cluster API
C18_MockIsolatedFromCluster ==
    (op \in Commands /\ IsMockMode) =>
        /\ StepsMade \cap ClientInits = {}
        /\ clusterCalls = <<>>

C20_NoDescriptionFailsAtOnce ==
    (op = "generate" /\ genArgs.args = <<>>) =>
        /\ cmdErr
        /\ "PromptUser" \notin StepsMade
        /\ StepsMade \cap ClientInits = {}
        /\ clusterCalls = <<>> /\ aiRequests = 0

\* C20: generate without a description argument prompts for one; an empty
\* answer is the error "description is required", raised before a cluster
\* client is initialised and before any request; any other answer's first
\* word is the description of a run that prints as yaml, is no dry run and
\* does not apply, with the provider typed at the second prompt or "auto"
C20_NoDescriptionPrompts ==
    (op = "generate" /\ genArgs.args = <<>>) =>
        LET d == PromptUser(stdin)
            p == PromptUser(d.rest)
        IN /\ Len(steps) > 0 /\ steps[1] = "PromptUser"
           /\ d.input = <<>> =>
                /\ cmdErr /\ cmdOut = "description is required"
                /\ steps = <<"PromptUser">>
                /\ clusterCalls = <<>> /\ aiRequests = 0
                /\ manifest = NoManifest
           /\ d.input # <<>> =>
                /\ cmdOut # "description is required"
                /\ "applyManifest" \notin StepsMade
                /\ cmdOut # "Dry run mode - manifest generated but not applied"
                /\ kubeconfigOK =>
                     /\ manifestReq.description = d.input
                     /\ manifestReq.provider =
                            IF p.input = <<>> THEN StrAuto ELSE p.input
                     /\ ~cmdErr => cmdOut = "Use --apply to apply this manifest to your cluster"
C20_Witness ==
    /\ op = "generate" /\ genArgs.args = <<>>
    /\ PromptUser(stdin).input = <<>> /\ stdin # <<>>
    /\ cmdErr /\ cmdOut = "description is required"
C20_WitnessPrompted ==
    /\ op = "generate" /\ genArgs.args = <<>>
    /\ manifestReq.description = <<"d","b">> /\ manifestReq.provider = StrAuto
    /\ ~cmdErr


\* the steps that are a discovery pass and those that are a
\* response-generation call
DiscoverySteps == {"GetAllResources", "GetFilteredResources"}
GenerationSteps == {"ProcessQuery", "AnalyzeResources", "GenerateSuggestions"}
DiscoveryAt == {i \in 1..Len(steps) : steps[i] \in DiscoverySteps}
GenerationAt == {i \in 1..Len(steps) : steps[i] \in GenerationSteps}
\* a run of ask with a question, of analyze or of suggest outside mock mode
\* whose cluster client was initialised
OneShotRun ==
    /\ op \in {"analyze", "suggest"} \/ (op = "ask" /\ query # <<>>)
    /\ ~IsMockMode /\ kubeconfigOK
\* the run's discovery handed nothing to the command
NothingFound ==
    GetFilteredResources(apiServer, filterArgs.name, filterArgs.provider,
                         filterArgs.namespace).resources = <<>>

\* C21 as stated: one discovery pass and then one response-generation call,
\* for every discovery result
C21_DiscoveryThenGeneration ==
    OneShotRun =>
        /\ Cardinality(DiscoveryAt) = 1 /\ Cardinality(GenerationAt) = 1
        /\ \A d \in DiscoveryAt, g \in GenerationAt : d < g

\* C21: one discovery pass, and after it one response-generation call,
\* except that analyze makes no response-generation call when its
\* filtered discovery result is empty
C21_GenerationUnlessAnalyzeFindsNothing ==
    OneShotRun =>
        /\ Cardinality(DiscoveryAt) = 1
        /\ \A d \in DiscoveryAt, g \in GenerationAt : d < g
        /\ Cardinality(GenerationAt) =
               IF op = "analyze" /\ NothingFound THEN 0 ELSE 1
        /\ (op = "analyze" /\ NothingFound) =>
               (~cmdErr /\ cmdOut = "No Crossplane resources found matching the criteria.")
C21_Witness ==
    /\ OneShotRun /\ op = "analyze" /\ NothingFound
    /\ \E i \in 1..14 : apiServer[i].items # <<>>
    /\ steps = <<"NewClientWithOptions", "NewService", "GetFilteredResources">>


\* the steps that send requests to the completion service
RequestingAt ==
    {i \in 1..Len(steps) : steps[i] \in GenerationSteps \cup {"generateManifest"}}

\* C22: nothing is retried: the requests to the cluster API are, for each
\* discovery pass, one per catalog entry in catalog order, whether or not
\* it fails, and the requests to the completion service are at most one per
\* response-generation call
C22_NothingRetried ==
    op \in Commands =>
        /\ Len(clusterCalls) = Len(resourceTypes) * Cardinality(DiscoveryAt)
        /\ \A i \in 1..Len(clusterCalls) :
               clusterCalls[i].kind = ((i - 1) % Len(resourceTypes)) + 1
        /\ aiRequests <= Cardinality(RequestingAt)
C22_Witness ==
    /\ op = "analyze" /\ Cardinality(DiscoveryAt) = 1
    /\ \E i \in 1..Len(resourceTypes) : apiServer[i].err
    /\ Len(clusterCalls) = Len(resourceTypes)
    /\ ~openaiReply.arrived /\ aiRequests = 1
    /\ "AnalyzeResources" \in StepsMade


\* the API key the configuration resolves to: the configured api_key, a
\* value of the form ${VAR} standing for the environment variable VAR, or
\* OPENAI_API_KEY when none is configured
ResolvedKey ==
    IF config.APIKey = <<>>
    THEN Getenv(environ, EnvOpenAIKey)
    ELSE IF Len(config.APIKey) >= 3 /\ SubSeq(config.APIKey, 1, 2) = <<"$", "{">>
            /\ config.APIKey[Len(config.APIKey)] = "}"
    THEN Getenv(environ, SubSeq(config.APIKey, 3, Len(config.APIKey) - 1))
    ELSE config.APIKey

\* C23: the service is in AI mode exactly when mock mode is off, the
\* provider is "openai" and the resolved API key is not empty, and in
\* template mode no request is sent to the completion service
C23_AIModeIff ==
    /\ useRealAI <=> /\ ~IsMockMode
                     /\ ~config.loadErr /\ config.Provider = StrOpenai
                     /\ ResolvedKey # <<>>
    /\ ~useRealAI => aiRequests = 0


\* C24: ask with a provider (namespace) flag hands to the service only
\* the discovered records of that provider (namespace)
C24_AskFilters ==
    (op = "ask" /\ ~IsMockMode /\ "ProcessQuery" \in StepsMade) =>
        \A i \in 1..Len(resourceList) :
            /\ filterArgs.provider # <<>> =>
                   resourceList[i].Provider = filterArgs.provider
            /\ filterArgs.namespace # "" =>
                   resourceList[i].Namespace = filterArgs.namespace


\* C25: every Analysis AnalyzeResources returns has a health score of 0 to
\* 100 and no more healthy resources and issues than resources
C25_AnalysisInRange ==
    op = "AnalyzeResources" =>
        /\ analysis.HealthScore >= 0 /\ analysis.HealthScore <= 100
        /\ analysis.HealthyResources + analysis.IssuesFound
               <= analysis.TotalResources

\* C26: a blocking call that never gets a reply, the List of a kind during
\* discovery or the POST to the completion service, is aborted by a timeout,
\* so every run of a command comes to its end
C26_CommandTerminates == <>(pc = "done")

\* the part of C26 about the completion request alone: once sent, the run ends
C26_CompletionCallEnds == (pc = "awaitHttp") ~> (pc = "done")

\* the verdict that goes with a health score
VerdictOf(score) ==
    IF score >= 80 THEN "healthy"
    ELSE IF score >= 60 THEN "needs attention"
    ELSE "critical"

\* C28: the detailed output of analyze for a non-empty resource set prints
\* the health score and its verdict: healthy from 80, needs attention from 60
\* to 79, critical below 60, a score of 0 included
C28_ScoreAndVerdictPrinted ==
    (op = "analyze" /\ cmdOut \in {"analysis", "mock analysis"}
        /\ analysis.TotalResources > 0)
    => /\ printDetailedAnalysis(analysis).score
       /\ printDetailedAnalysis(analysis).verdict = VerdictOf(analysis.HealthScore)

\* the same for the analyses whose score is not 0
C28_PositiveScorePrinted ==
    (op = "analyze" /\ cmdOut \in {"analysis", "mock analysis"}
        /\ analysis.HealthScore > 0)
    => /\ printDetailedAnalysis(analysis).score
       /\ printDetailedAnalysis(analysis).verdict = VerdictOf(analysis.HealthScore)

\* the request of the i-th response and what it asks for
KnownMethod(req) ==
    req.Method \in {"initialize", "tools/list", "tools/call", "resources/list",
                    "resources/read"}
IsError(resp, code) ==
    resp.Error.set /\ resp.Error.Code = code /\ resp.Result = ""
ParamsRefused(req) ==
    \/ req.Method \in {"tools/call", "resources/read"} /\ ~req.Params.isMap
    \/ req.Method = "tools/call" /\ ~req.Params.hasName
    \/ req.Method = "resources/read" /\ ~req.Params.hasURI
UnknownTool(req) ==
    /\ req.Method = "tools/call" /\ req.Params.isMap /\ req.Params.hasName
    /\ req.Params.name \notin MCPToolNames

C29_WitnessParams ==
    /\ Len(mcpOut) = 1 /\ mcpReqs[1].Method = "tools/call"
    /\ ~mcpReqs[1].Params.isMap /\ IsError(mcpOut[1], -32602)

\* the last request the mcp server answered
LastRequest == mcpReqs[Len(mcpReqs)]
FilteringCall ==
    /\ op = "mcp" /\ mcpReqs # <<>>
    /\ LastRequest.Method = "tools/call"
    /\ LastRequest.Params.isMap /\ LastRequest.Params.hasName
    /\ LastRequest.Params.name \in {"crossplane_ask", "crossplane_analyze"}
    /\ LastRequest.Params.arguments.isMap

\* C27: the tools crossplane_ask and crossplane_analyze called with a
\* provider hand the AI service resources of that provider only, and none at
\* all when nothing matches
C27_OnlyFilteredHanded ==
    (FilteringCall /\ filterArgs.provider # <<>> /\ kubeconfigOK)
    => \A i \in 1..Len(resourceList) : resourceList[i].Provider = filterArgs.provider

\* the same where the cluster has a resource that matches the filter
C27_FilteredWhenMatched ==
    (FilteringCall /\ filterArgs.provider # <<>> /\ kubeconfigOK
        /\ getResources_NoFallback(TRUE, apiServer, filterArgs) # <<>>)
    => \A i \in 1..Len(resourceList) : resourceList[i].Provider = filterArgs.provider

\* C30: the loop of the mcp server ends once standard input is exhausted,
\* whatever the input: a request that is malformed or cut short is logged and
\* skipped, and the requests after it are answered
C30_LoopEnds == <>(pc = "done")

\* the same for input in which every value is well-formed JSON
WellFormedInput ==
    \A i \in 1..Len(mcpIn) : mcpIn[i].kind \in {"request", "mistyped"}
C30_LoopEndsOnWellFormed ==
    (pc = "decode" /\ decErr = "" /\ WellFormedInput) ~> (pc = "done")

=============================================================================
